---- MODULE Spec2Model ----
(***************************************************************************)
(* Model of the GMM macro-monitor scripts: the return calculators, the     *)
(* series fetchers and the normalization of generate_html.py and           *)
(* macro_report_full.py, the report runs built on them with the cells they *)
(* render, and the polling loop of macro_update_scheduler.py.              *)
(*                                                                         *)
(* Timestamps are day numbers, day 0 = 2018-01-01 (START).  Values are     *)
(* floats carried as exact rationals of hundredths (250 stands for 2.50),  *)
(* with NaN and +/-inf as separate tags; binary rounding is not modelled.  *)
(***************************************************************************)
EXTENDS Integers, Sequences, FiniteSets, TLC

VARIABLES s, end_date, diff_mode, ret, returns, applied,
          fetch_call, fetch_result,
          script, down, feed, pc, data, calls, html, json_data,
          full_summary_df, available_items, page, written, crashed,
          per_page, flaky, console,
          nseries, norm_100, norm_full, norm_applied,
          now, sched_pc, last_poll, starts, polls

retVars == <<s, end_date, diff_mode, ret, returns, applied>>
fetchVars == <<fetch_call, fetch_result>>
runVars == <<script, down, feed, pc, data, calls, html, json_data,
             full_summary_df, available_items, page, written, crashed,
             per_page, flaky, console>>
normVars == <<nseries, norm_100, norm_full, norm_applied>>
schedVars == <<now, sched_pc, last_poll, starts, polls>>
vars == <<retVars, fetchVars, runVars, normVars, schedVars>>

----------------------------------------------------------------------------
(* Floats: numpy.float64 as used by both scripts.                          *)

Abs(n) == IF n < 0 THEN -n ELSE n

RECURSIVE GCD(_, _)
GCD(a, b) == IF b = 0 THEN a ELSE GCD(b, a % b)

NaN == [tag |-> "nan", num |-> 0, den |-> 1]
Inf(sign) == [tag |-> "inf", num |-> sign, den |-> 1]

Rat(n, d) ==
    LET g == GCD(Abs(n), Abs(d))
        sg == IF d < 0 THEN -1 ELSE 1
    IN  [tag |-> "num", num |-> sg * (n \div g), den |-> sg * (d \div g)]

Num(n) == Rat(n, 1)

isna(x) == x.tag = "nan"
IsZero(x) == x.tag = "num" /\ x.num = 0
IsFinite(x) == x.tag = "num"
Sign(x) == IF x.num < 0 THEN -1 ELSE IF x.num > 0 THEN 1 ELSE 0

\* a - b
FSub(a, b) ==
    IF isna(a) \/ isna(b) THEN NaN
    ELSE IF a.tag = "inf" /\ b.tag = "inf"
         THEN IF a.num = b.num THEN NaN ELSE a
    ELSE IF a.tag = "inf" THEN a
    ELSE IF b.tag = "inf" THEN Inf(-b.num)
    ELSE Rat(a.num * b.den - b.num * a.den, a.den * b.den)

\* a / b: float64 division yields nan for 0/0 and +/-inf for x/0
FDiv(a, b) ==
    IF isna(a) \/ isna(b) THEN NaN
    ELSE IF a.tag = "inf" /\ b.tag = "inf" THEN NaN
    ELSE IF a.tag = "inf" THEN Inf(a.num * (IF Sign(b) < 0 THEN -1 ELSE 1))
    ELSE IF b.tag = "inf" THEN Num(0)
    ELSE IF b.num = 0 THEN (IF a.num = 0 THEN NaN ELSE Inf(Sign(a)))
    ELSE Rat(a.num * b.den, a.den * b.num)

\* a * b
FMul(a, b) ==
    IF isna(a) \/ isna(b) THEN NaN
    ELSE IF a.tag = "inf" \/ b.tag = "inf"
         THEN IF Sign(a) * Sign(b) = 0 THEN NaN ELSE Inf(Sign(a) * Sign(b))
    ELSE Rat(a.num * b.num, a.den * b.den)

\* (a / b - 1.0) * 100.0 ; 1.0 is 100 hundredths here, and the quotient of two
\* values in hundredths is a pure number, so the constants are plain 1 and 100.
PctFormula(a, b) == FMul(FSub(FDiv(a, b), Num(1)), Num(100))

----------------------------------------------------------------------------
(* Calendar: datetime(end_date.year, 1, 1) and timedelta(days = n).        *)

EpochYear == 2018
LastYear == 2032

IsLeap(y) == (y % 4 = 0 /\ y % 100 # 0) \/ y % 400 = 0
DaysInYear(y) == IF IsLeap(y) THEN 366 ELSE 365

RECURSIVE YearStartDay(_)
YearStartDay(y) ==
    IF y = EpochYear THEN 0 ELSE YearStartDay(y - 1) + DaysInYear(y - 1)

YearOf(d) ==
    CHOOSE y \in EpochYear..LastYear : YearStartDay(y) <= d /\ d < YearStartDay(y + 1)

----------------------------------------------------------------------------
(* Observation sequences: pandas Series with a DatetimeIndex, as a         *)
(* sequence of [t, v] in index order.                                      *)

empty(S) == Len(S) = 0
iloc_last(S) == S[Len(S)].v
iloc_first(S) == S[1].v
index_last(S) == S[Len(S)].t

index(S) == {S[i].t : i \in 1..Len(S)}

\* S.loc[mask]: the rows the boolean mask selects, order kept; a mask is carried
\* as the set of index values where it is True
loc(S, mask) == SelectSeq(S, LAMBDA r : r.t \in mask)

----------------------------------------------------------------------------
(* generate_html.py: pct_return, diff_return, compute_returns              *)

pct_return_no_zero_check(a, b) ==
    IF isna(a) \/ isna(b) THEN NaN ELSE PctFormula(a, b)

pct_return(a, b) ==
    IF isna(a) \/ isna(b) \/ IsZero(b) THEN NaN ELSE PctFormula(a, b)

diff_return_as_pct(a, b) == pct_return(a, b)

diff_return(a, b) ==
    IF isna(a) \/ isna(b) THEN NaN ELSE FSub(a, b)

HtmlLabels == <<"YTD", "1M", "3M", "1Y", "3Y", "5Y">>

html_horizons(E) ==
    [k \in {HtmlLabels[i] : i \in 1..Len(HtmlLabels)} |->
        CASE k = "YTD" -> YearStartDay(YearOf(E))
          [] k = "1M"  -> E - 30
          [] k = "3M"  -> E - 90
          [] k = "1Y"  -> E - 365
          [] k = "3Y"  -> E - 3 * 365
          [] k = "5Y"  -> E - 5 * 365]

\* Each horizon's entry keeps the operands the code selected next to the result:
\* boundary = t0, boundary_value = s0, current = s1, value = out[k].
compute_returns_strict_mask(S, E, mode) ==
    LET horizons == html_horizons(E)
    IN  [k \in DOMAIN horizons |->
            LET t0 == horizons[k]
                mask == {t \in index(S) : t < t0}
                masked == loc(S, mask)
                s0 == IF ~empty(masked) THEN iloc_last(masked) ELSE NaN
                s1 == IF ~empty(S) THEN iloc_last(S) ELSE NaN
            IN  [boundary |-> t0, boundary_value |-> s0, current |-> s1,
                 value |-> IF mode THEN diff_return(s1, s0) ELSE pct_return(s1, s0)]]

compute_returns(S, E, mode) ==
    LET horizons == html_horizons(E)
    IN  [k \in DOMAIN horizons |->
            LET t0 == horizons[k]
                mask == {t \in index(S) : t <= t0}
                masked == loc(S, mask)
                s0 == IF mask # {} THEN iloc_last(masked) ELSE NaN
                s1 == IF ~empty(S) THEN iloc_last(S) ELSE NaN
            IN  [boundary |-> t0, boundary_value |-> s0, current |-> s1,
                 value |-> IF mode THEN diff_return(s1, s0) ELSE pct_return(s1, s0)]]

----------------------------------------------------------------------------
(* macro_report_full.py: compute_returns_for_series                        *)

FullLabels == <<"YTD", "1M", "3M", "1Y", "3Y", "5Y", "10Y">>

full_horizons(E) ==
    [h \in {FullLabels[i] : i \in 1..Len(FullLabels)} |->
        CASE h = "YTD" -> YearStartDay(YearOf(E))
          [] h = "1M"  -> E - 30
          [] h = "3M"  -> E - 90
          [] h = "1Y"  -> E - 365
          [] h = "3Y"  -> E - 365 * 3
          [] h = "5Y"  -> E - 365 * 5
          [] h = "10Y" -> E - 365 * 10]

\* start_val == 0 is only tested for percentage returns; the division is then
\* float64 division.  boundary_value = start_val, current = end_val.
full_return_value(use_difference, end_val, start_val) ==
    IF ~use_difference /\ IsZero(start_val) THEN NaN
    ELSE IF use_difference THEN FSub(end_val, start_val)
    ELSE PctFormula(end_val, start_val)

compute_returns_for_series(S, E, use_difference) ==
    LET horizons == full_horizons(E)
    IN  IF empty(S)
        THEN [h \in DOMAIN horizons |->
                [boundary |-> horizons[h], boundary_value |-> NaN,
                 current |-> NaN, value |-> NaN]]
        ELSE LET end_val == iloc_last(S)
             IN  [h \in DOMAIN horizons |->
                    LET start_dt == horizons[h]
                        sub == loc(S, {t \in index(S) : t >= start_dt /\ t <= E})
                    IN  IF empty(sub)
                        THEN [boundary |-> start_dt, boundary_value |-> NaN,
                              current |-> end_val, value |-> NaN]
                        ELSE LET start_val == iloc_first(sub)
                             IN  [boundary |-> start_dt, boundary_value |-> start_val,
                                  current |-> end_val,
                                  value |-> full_return_value(use_difference,
                                                              end_val, start_val)]]

----------------------------------------------------------------------------
(* Series operations used by the fetchers.                                 *)

\* Series.sort_index(): rows by timestamp, rows of one timestamp in their order
RECURSIVE sort_index(_)
sort_index(S) ==
    IF S = <<>> THEN <<>>
    ELSE LET m == CHOOSE i \in 1..Len(S) :
                      \A j \in 1..Len(S) :
                          S[i].t < S[j].t \/ (S[i].t = S[j].t /\ i <= j)
         IN  <<S[m]>> \o sort_index(SubSeq(S, 1, m - 1) \o SubSeq(S, m + 1, Len(S)))

dropna(S) == SelectSeq(S, LAMBDA r : ~isna(r.v))

\* Series.ffill(): a NaN takes the last earlier non-NaN value, if there is one
ffill(S) ==
    [i \in 1..Len(S) |->
        IF ~isna(S[i].v) \/ ~\E j \in 1..(i - 1) : ~isna(S[j].v)
        THEN S[i]
        ELSE LET j == CHOOSE m \in 1..(i - 1) :
                          /\ ~isna(S[m].v)
                          /\ \A n \in (m + 1)..(i - 1) : isna(S[n].v)
             IN  [t |-> S[i].t, v |-> S[j].v]]

\* Series.replace({0.0: np.nan})
replace_zero(S) ==
    [i \in 1..Len(S) |-> IF IsZero(S[i].v) THEN [t |-> S[i].t, v |-> NaN] ELSE S[i]]

\* (variant: the mask without its upper bound)
window_from_start(S, start, end) == loc(S, {t \in index(S) : t >= start})

\* s.loc[(s.index >= start) & (s.index <= end)]
window(S, start, end) == loc(S, {t \in index(S) : t >= start /\ t <= end})

----------------------------------------------------------------------------
(* generate_html.py: fetch_series.  An identifier string is carried as the  *)
(* sequence of its ':'-separated segments ("FRED:SP500" is <<"FRED",        *)
(* "SP500">>).  A provider outcome resp is [raises, columns, rows]: the     *)
(* call raised, or it returned a frame with these column names whose data   *)
(* column holds rows.                                                       *)

RECURSIVE join(_)
join(segs) ==
    IF Len(segs) = 1 THEN segs[1] ELSE segs[1] \o ":" \o join(Tail(segs))

\* ident.split(":", 1)
split1(ident) ==
    IF Len(ident) = 1 THEN <<ident[1]>> ELSE <<ident[1], join(Tail(ident))>>

\* ident.split(":")
split(ident) == ident

\* warned: the failure branch was taken (warnings.warn at line 103, print at
\* line 119); shown: the message reaches the operator
Returned(S, warned) ==
    [done |-> TRUE, raised |-> FALSE, warned |-> warned, shown |-> warned, series |-> S]
Raised ==
    [done |-> TRUE, raised |-> TRUE, warned |-> FALSE, shown |-> FALSE, series |-> <<>>]
NotFetched ==
    [done |-> FALSE, raised |-> FALSE, warned |-> FALSE, shown |-> FALSE, series |-> <<>>]

\* generate_html.py line 626: under __main__ the script installs
\* warnings.filterwarnings("ignore") before it fetches, and warnings.warn then
\* prints nothing
filterwarnings_ignore(r, main) == [r EXCEPT !.shown = r.warned /\ ~main]

fetch_series_finish(S, start, end) ==
    LET w == dropna(window(S, start, end))
    IN  Returned(IF ~empty(w) THEN ffill(w) ELSE w, FALSE)

fetch_series(ident, start, end, resp) ==
    LET parts == split1(ident)
    IN  \* src, code = ident.split(":", 1) is outside the try
        IF Len(parts) # 2 THEN Raised
        ELSE IF parts[1] = "FRED"
        THEN IF resp.raises \/ resp.columns = <<>> THEN Returned(<<>>, TRUE)
             ELSE fetch_series_finish(resp.rows, start, end)
        ELSE IF parts[1] = "STQ"
        THEN IF resp.raises \/ resp.columns # <<"Close">> THEN Returned(<<>>, TRUE)
             ELSE fetch_series_finish(sort_index(resp.rows), start, end)
        ELSE Returned(<<>>, FALSE)

----------------------------------------------------------------------------
(* macro_report_full.py: load_cape_series, fetch_series_any.  Identifiers   *)
(* are plain strings here.  scrape is the outcome of pd.read_html and the   *)
(* conversions after it, csv the outcome of pd.read_csv.                    *)

stooq_tickers ==
    {"SPY", "IWB", "IWM", "IWF", "IWD", "IWO", "IWN",
     "XLB", "XLE", "XLF", "XLI", "XLK", "XLP", "XLU", "XLV", "XLY", "XLC",
     "XOP", "OIH", "VNQ", "IYR"}

\* str.upper() on the identifiers that occur
upper(str) ==
    CASE str = "spy" -> "SPY"
      [] str = "cape" -> "CAPE"
      [] str = "sp500" -> "SP500"
      [] OTHER -> str

\* [raised, series]: the fallback's read_csv is outside any try of this function
load_cape_series(scrape, csv) ==
    IF ~scrape.raises /\ scrape.tables > 0
    THEN [raised |-> FALSE, series |-> ffill(replace_zero(sort_index(scrape.rows)))]
    ELSE IF csv.raises THEN [raised |-> TRUE, series |-> <<>>]
    ELSE [raised |-> FALSE, series |-> ffill(replace_zero(csv.rows))]

fetch_series_any(identifier, start, end, resp, scrape, csv) ==
    LET ident == upper(identifier)
        finish(S) == Returned(dropna(window(S, start, end)), FALSE)
    IN  IF ident = "CAPE"
        THEN LET cape == load_cape_series(scrape, csv)
             IN  IF cape.raised THEN Returned(<<>>, TRUE) ELSE finish(cape.series)
        ELSE IF ident \in stooq_tickers
        THEN IF resp.raises \/ resp.columns = <<>> THEN Returned(<<>>, TRUE)
             ELSE finish(sort_index(resp.rows))
        ELSE IF resp.raises \/ resp.columns = <<>> THEN Returned(<<>>, TRUE)
             ELSE finish(resp.rows)

----------------------------------------------------------------------------
(* Inputs of the fetchers.                                                  *)

\* datetime(1900, 1, 1), counted from 2018-01-01
Day1900 == -43099

RowDates == {-1, 1826, 2191}
RowValues == {NaN, Num(0), Num(250)}
MaxRows == 2

FetchWindows == {<<0, 2191>>, <<0, 1977>>, <<Day1900, 2191>>}

RowSeqs ==
    UNION {[1..n -> [t : RowDates, v : RowValues]] : n \in 0..MaxRows}

ProviderRaises == [raises |-> TRUE, columns |-> <<>>, rows |-> <<>>]
Responses ==
    {ProviderRaises} \cup
    [raises : {FALSE}, columns : {<<>>, <<"Close">>, <<"VALUE">>}, rows : RowSeqs]

NoScrape == [raises |-> TRUE, tables |-> 0, rows |-> <<>>]
NoTables == [raises |-> FALSE, tables |-> 0, rows |-> <<>>]
NoCsv == [raises |-> TRUE, rows |-> <<>>]
CsvOutcomes == {NoCsv} \cup [raises : {FALSE}, rows : RowSeqs]
ScrapeTables == [raises : {FALSE}, tables : {1}, rows : RowSeqs]

HtmlFetchIdents ==
    {<<"FRED", "SP500">>, <<"STQ", "SPY">>, <<"XXX", "SP500">>, <<"SP500">>,
     <<"FRED", "A", "B">>}
FullFetchIdents == {"SP500", "spy", "XLE", "NOSUCHCODE"}

\* main: the call is made by the script run as a program (__main__); only
\* generate_html.py is also used as an imported module
FetchCalls ==
    [fn : {"fetch_series"}, main : BOOLEAN, ident : HtmlFetchIdents,
     window : FetchWindows, resp : Responses, scrape : {NoScrape}, csv : {NoCsv}]
    \cup
    [fn : {"fetch_series_any"}, main : {TRUE}, ident : FullFetchIdents,
     window : FetchWindows, resp : Responses, scrape : {NoScrape}, csv : {NoCsv}]
    \cup
    [fn : {"fetch_series_any"}, main : {TRUE}, ident : {"CAPE", "cape"},
     window : FetchWindows, resp : {ProviderRaises}, scrape : ScrapeTables,
     csv : {NoCsv}]
    \cup
    [fn : {"fetch_series_any"}, main : {TRUE}, ident : {"CAPE"},
     window : FetchWindows, resp : {ProviderRaises}, scrape : {NoScrape, NoTables},
     csv : CsvOutcomes]

NoCall ==
    [fn |-> "none", main |-> FALSE, ident |-> "", window |-> <<0, 0>>,
     resp |-> ProviderRaises, scrape |-> NoScrape, csv |-> NoCsv]

FetchIdle == fetch_call = NoCall /\ fetch_result = NotFetched

FetchInit ==
    /\ fetch_call \in FetchCalls
    /\ fetch_result = NotFetched

FetchSeries ==
    /\ fetch_call.fn = "fetch_series"
    /\ ~fetch_result.done
    /\ fetch_result' = filterwarnings_ignore(
                            fetch_series(fetch_call.ident, fetch_call.window[1],
                                         fetch_call.window[2], fetch_call.resp),
                            fetch_call.main)
    /\ UNCHANGED fetch_call
    /\ UNCHANGED <<retVars, runVars, normVars, schedVars>>

FetchSeriesAny ==
    /\ fetch_call.fn = "fetch_series_any"
    /\ ~fetch_result.done
    /\ fetch_result' = fetch_series_any(fetch_call.ident, fetch_call.window[1],
                                        fetch_call.window[2], fetch_call.resp,
                                        fetch_call.scrape, fetch_call.csv)
    /\ UNCHANGED fetch_call
    /\ UNCHANGED <<retVars, runVars, normVars, schedVars>>

----------------------------------------------------------------------------
(* Configuration of generate_html.py.                                      *)

\* START = datetime(2018, 1, 1) is day 0; END = datetime.now(), here 2024-01-01
START == 0
END == 2191

OUT_HTML == "index.html"
OUT_JSON == "data.json"

YIELD_OR_SPREAD ==
    {"DFF", "FEDFUNDS", "TB3MS", "DGS3MO", "DGS2", "DGS5", "DGS10", "DGS30",
     "GS2", "GS5", "GS10", "GS30",
     "AAA", "BAA", "BAMLH0A0HYM2", "BAMLC0A0CMEY", "BAMLC0A4CBBBEY",
     "MORTGAGE30US"}

SECTIONS ==
    <<
     [title |-> "Major Indices",
      items |-> <<
            [ident |-> <<"FRED", "SP500">>, name |-> "S&P 500"],
            [ident |-> <<"FRED", "DJIA">>, name |-> "Dow Jones"],
            [ident |-> <<"FRED", "NASDAQCOM">>, name |-> "NASDAQ Composite"],
            [ident |-> <<"STQ", "IWM">>, name |-> "Russell 2000 (IWM)"],
            [ident |-> <<"STQ", "SPY">>, name |-> "SPY ETF"],
            [ident |-> <<"STQ", "QQQ">>, name |-> "Nasdaq 100 (QQQ)"] >>],
     [title |-> "Sectors (SPDR ETFs)",
      items |-> <<
            [ident |-> <<"STQ", "XLB">>, name |-> "Materials"],
            [ident |-> <<"STQ", "XLE">>, name |-> "Energy"],
            [ident |-> <<"STQ", "XLF">>, name |-> "Financials"],
            [ident |-> <<"STQ", "XLI">>, name |-> "Industrials"],
            [ident |-> <<"STQ", "XLK">>, name |-> "Technology"],
            [ident |-> <<"STQ", "XLP">>, name |-> "Staples"],
            [ident |-> <<"STQ", "XLU">>, name |-> "Utilities"],
            [ident |-> <<"STQ", "XLV">>, name |-> "Health Care"],
            [ident |-> <<"STQ", "XLY">>, name |-> "Discretionary"],
            [ident |-> <<"STQ", "XLC">>, name |-> "Comm Services"] >>],
     [title |-> "Volatility & Credit",
      items |-> <<
            [ident |-> <<"FRED", "VIXCLS">>, name |-> "VIX"],
            [ident |-> <<"FRED", "BAMLH0A0HYM2">>, name |-> "HY Spread"],
            [ident |-> <<"FRED", "AAA">>, name |-> "AAA Yield"],
            [ident |-> <<"FRED", "BAA">>, name |-> "BAA Yield"],
            [ident |-> <<"FRED", "BAMLC0A0CMEY">>, name |-> "IG Spread"] >>],
     [title |-> "Commodities & Energy",
      items |-> <<
            [ident |-> <<"FRED", "DCOILWTICO">>, name |-> "WTI Crude"],
            [ident |-> <<"FRED", "DCOILBRENTEU">>, name |-> "Brent Crude"],
            [ident |-> <<"FRED", "DHHNGSP">>, name |-> "Natural Gas"],
            [ident |-> <<"FRED", "GOLDAMGBD228NLBM">>, name |-> "Gold"],
            [ident |-> <<"STQ", "XLE">>, name |-> "Energy Sector"],
            [ident |-> <<"STQ", "XOP">>, name |-> "Oil & Gas E&P"] >>],
     [title |-> "Interest Rates",
      items |-> <<
            [ident |-> <<"FRED", "DFF">>, name |-> "Fed Funds Rate"],
            [ident |-> <<"FRED", "DGS3MO">>, name |-> "3-Month Treasury"],
            [ident |-> <<"FRED", "DGS2">>, name |-> "2-Year Treasury"],
            [ident |-> <<"FRED", "DGS5">>, name |-> "5-Year Treasury"],
            [ident |-> <<"FRED", "DGS10">>, name |-> "10-Year Treasury"],
            [ident |-> <<"FRED", "DGS30">>, name |-> "30-Year Treasury"] >>],
     [title |-> "Real Estate & Intl",
      items |-> <<
            [ident |-> <<"STQ", "VNQ">>, name |-> "US REITs"],
            [ident |-> <<"STQ", "IYR">>, name |-> "US Real Estate"],
            [ident |-> <<"STQ", "EFA">>, name |-> "Intl Developed"],
            [ident |-> <<"STQ", "EEM">>, name |-> "Emerging Markets"],
            [ident |-> <<"FRED", "MORTGAGE30US">>, name |-> "30-Yr Mortgage"] >>] >>

----------------------------------------------------------------------------
(* Configuration of macro_report_full.py (display names with ASCII hyphens). *)

YIELD_SERIES ==
    {"FEDFUNDS", "TB3MS", "GS2", "GS5", "GS10", "GS30",
     "AAA", "BAA", "BAMLH0A0HYM2", "BAMLC0A0CMEY", "BAMLC0A4CBBB",
     "CAPE", "QUSR628BIS", "DDDM01USA156NWDB"}

\* main() passes max_series_per_page = 2
max_series_per_page == 2

sections ==
    <<
     [title |-> "Major Equity Indices",
      series |-> <<
            [ident |-> "SP500", name |-> "S&P 500 Index"],
            [ident |-> "IWB", name |-> "Russell 1000 ETF"],
            [ident |-> "IWM", name |-> "Russell 2000 ETF"] >>],
     [title |-> "S&P Sector ETFs",
      series |-> <<
            [ident |-> "XLB", name |-> "Materials"],
            [ident |-> "XLE", name |-> "Energy"],
            [ident |-> "XLF", name |-> "Financials"],
            [ident |-> "XLI", name |-> "Industrials"],
            [ident |-> "XLK", name |-> "Technology"],
            [ident |-> "XLP", name |-> "Consumer Staples"],
            [ident |-> "XLU", name |-> "Utilities"],
            [ident |-> "XLV", name |-> "Health Care"],
            [ident |-> "XLY", name |-> "Consumer Discretionary"],
            [ident |-> "XLC", name |-> "Communication Services"] >>],
     [title |-> "Growth vs Value",
      series |-> <<
            [ident |-> "IWF", name |-> "Russell 1000 Growth"],
            [ident |-> "IWD", name |-> "Russell 1000 Value"],
            [ident |-> "IWO", name |-> "Russell 2000 Growth"],
            [ident |-> "IWN", name |-> "Russell 2000 Value"] >>],
     [title |-> "Valuation Ratios",
      series |-> <<
            [ident |-> "CAPE", name |-> "Shiller CAPE Ratio"],
            [ident |-> "QUSR628BIS", name |-> "Tobin Q Ratio"],
            [ident |-> "DDDM01USA156NWDB", name |-> "Market Cap to GDP"] >>],
     [title |-> "Volatility & Credit",
      series |-> <<
            [ident |-> "VIXCLS", name |-> "CBOE VIX Index"],
            [ident |-> "BAMLH0A0HYM2", name |-> "High-Yield Bond Spread"],
            [ident |-> "BAMLC0A0CMEY", name |-> "AAA Corporate Yield"],
            [ident |-> "BAMLC0A4CBBB", name |-> "BBB Corporate Yield"] >>],
     [title |-> "Commodities & Energy Stocks",
      series |-> <<
            [ident |-> "DCOILWTICO", name |-> "WTI Crude (USD/bbl)"],
            [ident |-> "DCOILBRENTEU", name |-> "Brent Crude (USD/bbl)"],
            [ident |-> "DHHNGSP", name |-> "Natural Gas (USD/MMBtu)"],
            [ident |-> "XOP", name |-> "Oil & Gas E&P ETF"],
            [ident |-> "OIH", name |-> "Oil Services ETF"] >>],
     [title |-> "Interest Rates & Spreads",
      series |-> <<
            [ident |-> "FEDFUNDS", name |-> "Fed Funds Rate"],
            [ident |-> "TB3MS", name |-> "3-Month T-Bill"],
            [ident |-> "GS2", name |-> "2-Year Treasury"],
            [ident |-> "GS5", name |-> "5-Year Treasury"],
            [ident |-> "GS10", name |-> "10-Year Treasury"],
            [ident |-> "GS30", name |-> "30-Year Treasury"],
            [ident |-> "AAA", name |-> "AAA Corporate Yield"],
            [ident |-> "BAA", name |-> "BAA Corporate Yield"] >>],
     [title |-> "Real Estate & Mortgage",
      series |-> <<
            [ident |-> "VNQ", name |-> "US Real Estate ETF (VNQ)"],
            [ident |-> "IYR", name |-> "US Real Estate ETF (IYR)"],
            [ident |-> "CSUSHPINSA", name |-> "Case-Shiller Home Price Index"],
            [ident |-> "MORTGAGE30US", name |-> "30Y Mortgage Rate"] >>] >>

----------------------------------------------------------------------------
(* The data providers during one report run.  down is the set of           *)
(* identifiers whose retrieval fails in this run; every other identifier   *)
(* is answered with the rows of feed.                                      *)

SeqRange(q) == {q[i] : i \in 1..Len(q)}

HtmlIdents == UNION {{it.ident : it \in SeqRange(SECTIONS[k].items)} : k \in 1..Len(SECTIONS)}
FullIdents == UNION {{it.ident : it \in SeqRange(sections[k].series)} : k \in 1..Len(sections)}

\* the answer of one call, failing or not
DataReaderWhen(fails) ==
    IF fails THEN ProviderRaises
    ELSE [raises |-> FALSE, columns |-> <<"Close">>, rows |-> feed]

DataReader(ident) == DataReaderWhen(ident \in down)

read_html(fails) ==
    IF fails THEN NoScrape ELSE [raises |-> FALSE, tables |-> 1, rows |-> feed]

read_csv(fails) == IF fails THEN NoCsv ELSE [raises |-> FALSE, rows |-> feed]

\* whether one fetch of ident fails: fixed by down, except for the identifiers
\* in flaky, whose provider may fail at one fetch and answer at the next
Outcomes(ident) == IF ident \in flaky THEN BOOLEAN ELSE {ident \in down}

\* a line on the operator's terminal (stdout or stderr)
Line(kind, ident) == [kind |-> kind, ident |-> ident]

\* the warning of a fetch, if one is shown
warn(out, r, ident) == IF r.shown THEN Append(out, Line("warning", ident)) ELSE out

Feeds ==
    { << [t |-> 1826, v |-> Num(250)], [t |-> 2191, v |-> Num(275)] >>,
      << [t |-> 1826, v |-> Num(0)], [t |-> 2161, v |-> Num(250)] >> }

DownSets(idents, secs) ==
    {{}, idents} \cup {{i} : i \in idents} \cup secs

Bump(c, k) == IF k \in DOMAIN c THEN [c EXCEPT ![k] = @ + 1] ELSE c @@ (k :> 1)

NoPage == [page_idx |-> 0, subset_items |-> <<>>, subset_summary |-> <<>>, drawn |-> <<>>]

RunIdle ==
    /\ script = "none" /\ down = {} /\ feed = <<>>
    /\ pc = [phase |-> "done", sec |-> 0, idx |-> 0]
    /\ data = <<>> /\ calls = <<>> /\ html = <<>> /\ json_data = <<>>
    /\ full_summary_df = <<>> /\ available_items = <<>> /\ page = NoPage
    /\ written = <<>> /\ crashed = FALSE
    /\ per_page = 0 /\ flaky = {} /\ console = <<>>

----------------------------------------------------------------------------
(* Rendering of values into the outputs.  A cell is what the output holds  *)
(* at one position: a text, a number, JSON null, or nothing.  unit is 100   *)
(* for levels and differences (carried in hundredths) and 1 for            *)
(* percentages.                                                             *)

Text(str) == [kind |-> "text", text |-> str, number |-> NaN]
Number(x) == [kind |-> "number", text |-> "", number |-> x]
Null == [kind |-> "null", text |-> "", number |-> NaN]
Blank == [kind |-> "blank", text |-> "", number |-> NaN]

\* n / d rounded half to even, for n >= 0 and d > 0
round_half_even(n, d) ==
    LET q == n \div d
        r == n % d
    IN  IF 2 * r < d THEN q
        ELSE IF 2 * r > d THEN q + 1
        ELSE IF q % 2 = 0 THEN q ELSE q + 1

digits(k, width) ==
    IF width = 3 /\ k < 10 THEN "00" \o ToString(k)
    ELSE IF k < 10 \/ (width = 3 /\ k < 100) THEN "0" \o ToString(k)
    ELSE ToString(k)

RECURSIVE thousands(_)
thousands(n) ==
    IF n < 1000 THEN ToString(n)
    ELSE thousands(n \div 1000) \o "," \o digits(n % 1000, 3)

\* format(x, '.2f') and, with grouping, format(x, ',.2f')
fixed2(x, unit, grouping) ==
    IF isna(x) THEN "nan"
    ELSE IF x.tag = "inf" THEN (IF x.num < 0 THEN "-inf" ELSE "inf")
    ELSE LET h == round_half_even(Abs(x.num) * 100, x.den * unit)
         IN  (IF x.num < 0 THEN "-" ELSE "")
             \o (IF grouping THEN thousands(h \div 100) ELSE ToString(h \div 100))
             \o "." \o digits(h % 100, 2)

\* generate_html.py lines 503-511
format_val(val, unit) ==
    IF isna(val) THEN ""
    ELSE IF Sign(val) > 0
    THEN "<span class=\"positive\">" \o fixed2(val, unit, FALSE) \o "</span>"
    ELSE IF Sign(val) < 0
    THEN "<span class=\"negative\">" \o fixed2(val, unit, FALSE) \o "</span>"
    ELSE fixed2(val, unit, FALSE)

\* generate_html.py line 614: float(v) if not pd.isna(v) else None
json_value(v) == IF ~isna(v) THEN Number(v) ELSE Null

\* macro_report_full.py line 417: f"{x:,.2f}" if pd.notnull(x) else 'NA'
display_value(x, unit) == IF ~isna(x) THEN Text(fixed2(x, unit, TRUE)) ELSE Text("NA")

\* DataFrame.to_excel with its default na_rep = '': a missing value leaves the
\* cell empty
to_excel_value(x) == IF isna(x) THEN Blank ELSE Number(x)

ReturnUnit(is_diff) == IF is_diff THEN 100 ELSE 1

----------------------------------------------------------------------------
(* generate_html.py: generate_html_report.  Chart rendering and the static  *)
(* HTML/CSS text are not carried; html holds the table rows and chart pairs *)
(* appended to the page in order.                                           *)

\* the position after item idx of section sec in a loop over all sections'
\* items; after the last item the loop ends and control reaches after
loop_next(secs, sec, idx, phase, after) ==
    IF idx < Len(secs[sec]) THEN [phase |-> phase, sec |-> sec, idx |-> idx + 1]
    ELSE IF sec < Len(secs) THEN [phase |-> phase, sec |-> sec + 1, idx |-> 1]
    ELSE after

HtmlItemLists == [k \in 1..Len(SECTIONS) |-> SECTIONS[k].items]
HtmlItem == SECTIONS[pc.sec].items[pc.idx]

\* data.get(ident, pd.Series(dtype=float))
data_get(ident) == IF ident \in DOMAIN data THEN data[ident] ELSE <<>>

\* whether fetch_series reaches a web.DataReader call for ident
calls_provider(ident) ==
    Len(split1(ident)) = 2 /\ split1(ident)[1] \in {"FRED", "STQ"}

\* lines 219-225: data[ident] = fetch_series(ident) unless ident is in data
HtmlFetchAlways ==
    /\ script = "html" /\ pc.phase = "fetch" /\ ~crashed
    /\ LET ident == HtmlItem.ident
           r == fetch_series(ident, START, END, DataReader(ident))
       IN  IF r.raised
           THEN /\ crashed' = TRUE
                /\ console' = console \o <<Line("fetching", join(ident)), Line("traceback", join(ident))>>
                /\ UNCHANGED <<data, calls, pc>>
           ELSE /\ data' = [k \in (DOMAIN data) \cup {ident} |->
                               IF k = ident THEN r.series ELSE data[k]]
                /\ calls' = IF calls_provider(ident)
                            THEN Bump(calls, <<ident, START>>) ELSE calls
                /\ console' = warn(Append(console, Line("fetching", join(ident))),
                                   filterwarnings_ignore(r, TRUE), join(ident))
                /\ pc' = loop_next(HtmlItemLists, pc.sec, pc.idx, "fetch",
                                   [phase |-> "rows", sec |-> 1, idx |-> 1])
                /\ UNCHANGED crashed
    /\ UNCHANGED <<script, down, feed, per_page, flaky, html, json_data, full_summary_df,
                   available_items, page, written>>
    /\ UNCHANGED <<retVars, fetchVars, normVars, schedVars>>

HtmlFetch ==
    /\ script = "html" /\ pc.phase = "fetch" /\ ~crashed
    /\ LET ident == HtmlItem.ident
           r == fetch_series(ident, START, END, DataReader(ident))
       IN  IF ident \in DOMAIN data
           THEN /\ pc' = loop_next(HtmlItemLists, pc.sec, pc.idx, "fetch",
                                   [phase |-> "rows", sec |-> 1, idx |-> 1])
                /\ UNCHANGED <<data, calls, crashed, console>>
           ELSE IF r.raised
           THEN /\ crashed' = TRUE
                /\ console' = console \o <<Line("fetching", join(ident)), Line("traceback", join(ident))>>
                /\ UNCHANGED <<data, calls, pc>>
           ELSE /\ data' = data @@ (ident :> r.series)
                /\ calls' = IF calls_provider(ident)
                            THEN Bump(calls, <<ident, START>>) ELSE calls
                /\ console' = warn(Append(console, Line("fetching", join(ident))),
                                   filterwarnings_ignore(r, TRUE), join(ident))
                /\ pc' = loop_next(HtmlItemLists, pc.sec, pc.idx, "fetch",
                                   [phase |-> "rows", sec |-> 1, idx |-> 1])
                /\ UNCHANGED crashed
    /\ UNCHANGED <<script, down, feed, per_page, flaky, html, json_data, full_summary_df,
                   available_items, page, written>>
    /\ UNCHANGED <<retVars, fetchVars, normVars, schedVars>>

\* lines 495-499: code = ident.split(":")[1]; diff_mode = code in YIELD_OR_SPREAD
\* (variant: the membership test applied to the whole identifier)
html_diff_mode_whole_ident(ident) == join(ident) \in YIELD_OR_SPREAD

html_diff_mode(ident) == split(ident)[2] \in YIELD_OR_SPREAD

\* lines 483-524: one table row
html_row(section_name, item) ==
    LET S == data_get(item.ident)
    IN  IF empty(S)
        THEN [kind |-> "row", section |-> section_name, ident |-> item.ident,
              name |-> item.name, nodata |-> TRUE, diff_mode |-> FALSE,
              current_val |-> NaN, ret |-> <<>>,
              cells |-> [k \in {"colspan"} |-> Text("No data")]]
        ELSE [kind |-> "row", section |-> section_name, ident |-> item.ident,
              name |-> item.name, nodata |-> FALSE,
              diff_mode |-> html_diff_mode(item.ident),
              current_val |-> iloc_last(S),
              ret |-> compute_returns(S, index_last(S), html_diff_mode(item.ident)),
              cells |->
                  LET ret_ == compute_returns(S, index_last(S), html_diff_mode(item.ident))
                  IN  [k \in (DOMAIN ret_) \cup {"Current"} |->
                          IF k = "Current" THEN Text(fixed2(iloc_last(S), 100, FALSE))
                          ELSE Text(format_val(ret_[k].value,
                                               ReturnUnit(html_diff_mode(item.ident))))]]

HtmlTableRow ==
    /\ script = "html" /\ pc.phase = "rows" /\ ~crashed
    /\ html' = Append(html, html_row(SECTIONS[pc.sec].title, HtmlItem))
    /\ pc' = IF pc.idx < Len(SECTIONS[pc.sec].items)
             THEN [pc EXCEPT !.idx = @ + 1]
             ELSE [phase |-> "charts", sec |-> pc.sec, idx |-> 1]
    /\ UNCHANGED <<script, down, feed, per_page, flaky, data, calls, json_data, full_summary_df,
                   available_items, page, written, crashed, console>>
    /\ UNCHANGED <<retVars, fetchVars, normVars, schedVars>>

\* (variant: the page is saved from inside the loop over sections)
HtmlChartPairSavesInLoop ==
    /\ script = "html" /\ pc.phase = "charts" /\ ~crashed
    /\ html' = IF empty(data_get(HtmlItem.ident)) THEN html
               ELSE Append(html, [kind |-> "chart_pair",
                                  section |-> SECTIONS[pc.sec].title,
                                  ident |-> HtmlItem.ident, name |-> HtmlItem.name,
                                  nodata |-> FALSE,
                                  diff_mode |-> html_diff_mode(HtmlItem.ident),
                                  current_val |-> NaN, ret |-> <<>>,
                                  cells |-> <<>>])
    /\ pc' = IF pc.idx < Len(SECTIONS[pc.sec].items)
             THEN [pc EXCEPT !.idx = @ + 1]
             ELSE [phase |-> "save_html", sec |-> 0, idx |-> 0]
    /\ UNCHANGED <<script, down, feed, per_page, flaky, data, calls, json_data, full_summary_df,
                   available_items, page, written, crashed, console>>
    /\ UNCHANGED <<retVars, fetchVars, normVars, schedVars>>

\* lines 536-556: the level chart and the normalized chart of one series
HtmlChartPair ==
    /\ script = "html" /\ pc.phase = "charts" /\ ~crashed
    /\ html' = IF empty(data_get(HtmlItem.ident)) THEN html
               ELSE Append(html, [kind |-> "chart_pair",
                                  section |-> SECTIONS[pc.sec].title,
                                  ident |-> HtmlItem.ident, name |-> HtmlItem.name,
                                  nodata |-> FALSE,
                                  diff_mode |-> html_diff_mode(HtmlItem.ident),
                                  current_val |-> NaN, ret |-> <<>>,
                                  cells |-> <<>>])
    /\ pc' = IF pc.idx < Len(SECTIONS[pc.sec].items)
             THEN [pc EXCEPT !.idx = @ + 1]
             ELSE IF pc.sec < Len(SECTIONS)
             THEN [phase |-> "rows", sec |-> pc.sec + 1, idx |-> 1]
             ELSE [phase |-> "save_html", sec |-> 0, idx |-> 0]
    /\ UNCHANGED <<script, down, feed, per_page, flaky, data, calls, json_data, full_summary_df,
                   available_items, page, written, crashed, console>>
    /\ UNCHANGED <<retVars, fetchVars, normVars, schedVars>>

\* lines 592-594
HtmlSave ==
    /\ script = "html" /\ pc.phase = "save_html" /\ ~crashed
    /\ written' = Append(written, [kind |-> "file", name |-> OUT_HTML,
                                   placeholder |-> FALSE,
                                   table |-> <<>>, charts |-> <<>>])
    /\ pc' = [phase |-> "json", sec |-> 1, idx |-> 1]
    /\ UNCHANGED <<script, down, feed, per_page, flaky, data, calls, html, json_data,
                   full_summary_df, available_items, page, crashed, console>>
    /\ UNCHANGED <<retVars, fetchVars, normVars, schedVars>>

\* lines 602-616: one entry of json_data["sections"][section_name]
HtmlJsonEntry ==
    /\ script = "html" /\ pc.phase = "json" /\ ~crashed
    /\ LET S == data_get(HtmlItem.ident)
       IN  json_data' =
             IF empty(S) THEN json_data
             ELSE Append(json_data,
                         [section |-> SECTIONS[pc.sec].title, name |-> HtmlItem.name,
                          current |-> iloc_last(S),
                          ret |-> compute_returns(S, index_last(S),
                                                  html_diff_mode(HtmlItem.ident)),
                          returns |->
                              LET ret_ == compute_returns(S, index_last(S),
                                                          html_diff_mode(HtmlItem.ident))
                              IN  [k \in DOMAIN ret_ |-> json_value(ret_[k].value)],
                          last_date |-> index_last(S)])
    /\ pc' = loop_next(HtmlItemLists, pc.sec, pc.idx, "json",
                       [phase |-> "save_json", sec |-> 0, idx |-> 0])
    /\ UNCHANGED <<script, down, feed, per_page, flaky, data, calls, html, full_summary_df,
                   available_items, page, written, crashed, console>>
    /\ UNCHANGED <<retVars, fetchVars, normVars, schedVars>>

\* lines 618-619
HtmlSaveJson ==
    /\ script = "html" /\ pc.phase = "save_json" /\ ~crashed
    /\ written' = Append(written, [kind |-> "file", name |-> OUT_JSON,
                                   placeholder |-> FALSE,
                                   table |-> <<>>, charts |-> <<>>])
    /\ console' = console \o <<Line("generated", OUT_HTML), Line("generated", OUT_JSON),
                                Line("open", OUT_HTML)>>
    /\ pc' = [phase |-> "done", sec |-> 0, idx |-> 0]
    /\ UNCHANGED <<script, down, feed, per_page, flaky, data, calls, html, json_data,
                   full_summary_df, available_items, page, crashed>>
    /\ UNCHANGED <<retVars, fetchVars, normVars, schedVars>>

HtmlInit ==
    /\ script = "html"
    /\ down \in DownSets(HtmlIdents,
                         {{it.ident : it \in SeqRange(SECTIONS[k].items)} : k \in 1..Len(SECTIONS)})
    /\ feed \in Feeds
    /\ pc = [phase |-> "fetch", sec |-> 1, idx |-> 1]
    /\ data = <<>> /\ calls = <<>> /\ html = <<>> /\ json_data = <<>>
    /\ full_summary_df = <<>> /\ available_items = <<>> /\ page = NoPage
    /\ written = <<>> /\ crashed = FALSE
    /\ per_page = 0 /\ flaky = {}
    /\ console = <<Line("generating", ""), Line("fetching_from", "")>>

HtmlNext ==
    \/ HtmlFetch
    \/ HtmlTableRow
    \/ HtmlChartPair
    \/ HtmlSave
    \/ HtmlJsonEntry
    \/ HtmlSaveJson

----------------------------------------------------------------------------
(* macro_report_full.py: build_summary_table, build_valuation_summary,      *)
(* draw_full_section, build_full_report.  The long-run median, premium and  *)
(* sigma columns of the valuation summary and the plotted curves are not    *)
(* carried.  written holds the Excel sheets and PDF pages in write order.   *)

FullItem == sections[pc.sec].series[pc.idx]
FullTitle == sections[pc.sec].title

\* fetch_series_any(ident, start, END) against this run's providers, for a
\* call that fails or not
fetch_any(ident, start, fails) ==
    fetch_series_any(ident, start, END, DataReaderWhen(fails), read_html(fails),
                     read_csv(fails))

full_next_section(sec) ==
    IF sec < Len(sections) THEN [phase |-> "summary", sec |-> sec + 1, idx |-> 1]
    ELSE [phase |-> "finish", sec |-> 0, idx |-> 0]

full_next_item(after) ==
    IF pc.idx < Len(sections[pc.sec].series) THEN [pc EXCEPT !.idx = @ + 1]
    ELSE [phase |-> after, sec |-> pc.sec, idx |-> 1]

\* line 199: use_diff = ident.upper() in YIELD_SERIES
use_diff(ident) == upper(ident) \in YIELD_SERIES

\* lines 193-203: one iteration of build_summary_table
FullSummaryRow ==
    /\ script = "full" /\ pc.phase = "summary" /\ ~crashed
    /\ FullTitle # "Valuation Ratios"
    /\ \E fails \in Outcomes(FullItem.ident) :
         LET r == fetch_any(FullItem.ident, START, fails)
             series == r.series
         IN  /\ full_summary_df' =
                   IF empty(series) THEN full_summary_df
                   ELSE Append(full_summary_df,
                               [Series |-> FullItem.name, Current |-> iloc_last(series),
                                diff |-> use_diff(FullItem.ident),
                                returns |-> compute_returns_for_series(
                                                series, index_last(series),
                                                use_diff(FullItem.ident))])
             /\ console' = warn(console, r, FullItem.ident)
    /\ calls' = Bump(calls, <<FullItem.ident, START>>)
    /\ pc' = full_next_item("summary_done")
    /\ UNCHANGED <<script, down, feed, per_page, flaky, data, html, json_data, available_items,
                   page, written, crashed>>
    /\ UNCHANGED <<retVars, fetchVars, normVars, schedVars>>

\* lines 238-264: one iteration of build_valuation_summary
FullValuationRow ==
    /\ script = "full" /\ pc.phase = "summary" /\ ~crashed
    /\ FullTitle = "Valuation Ratios"
    /\ \E fails_full, fails_recent \in Outcomes(FullItem.ident) :
         LET r_full == fetch_any(FullItem.ident, Day1900, fails_full)
             r_recent == fetch_any(FullItem.ident, START, fails_recent)
             full_series == r_full.series
             series_recent == r_recent.series
         IN  /\ full_summary_df' =
                   IF empty(full_series) \/ empty(series_recent) THEN full_summary_df
                   ELSE Append(full_summary_df,
                               [Series |-> FullItem.name,
                                Current |-> iloc_last(series_recent),
                                diff |-> FALSE, returns |-> <<>>])
             /\ console' = warn(warn(console, r_full, FullItem.ident),
                                r_recent, FullItem.ident)
    /\ calls' = Bump(Bump(calls, <<FullItem.ident, Day1900>>), <<FullItem.ident, START>>)
    /\ pc' = full_next_item("summary_done")
    /\ UNCHANGED <<script, down, feed, per_page, flaky, data, html, json_data, available_items,
                   page, written, crashed>>
    /\ UNCHANGED <<retVars, fetchVars, normVars, schedVars>>

\* one row of the summary frame as to_excel stores it (line 616) and as the
\* page's table shows it (lines 415-419); rec is the frame's row
sheet_row(rec) ==
    [Series |-> rec.Series, returns |-> rec.returns,
     cells |-> [k \in (DOMAIN rec.returns) \cup {"Current"} |->
                   IF k = "Current" THEN to_excel_value(rec.Current)
                   ELSE to_excel_value(rec.returns[k].value)]]

display_row(rec) ==
    [Series |-> rec.Series, returns |-> rec.returns,
     cells |-> [k \in (DOMAIN rec.returns) \cup {"Current"} |->
                   IF k = "Current" THEN display_value(rec.Current, 100)
                   ELSE display_value(rec.returns[k].value, ReturnUnit(rec.diff))]]

\* (variant: the sheet holds the rows of the first page only)
sheet_table_first_page(df) ==
    [i \in 1..(IF Len(df) < per_page THEN Len(df) ELSE per_page) |-> sheet_row(df[i])]

\* line 616: full_summary_df.to_excel(writer, sheet_name=sheet_name, index=False)
sheet_table(df) == [i \in 1..Len(df) |-> sheet_row(df[i])]

\* lines 265-269 and 608-616: the summary frame is finished and written to its
\* sheet.  build_valuation_summary indexes df['Current'] on a frame built from
\* no records, which has no columns: KeyError.
FullWriteSheet ==
    /\ script = "full" /\ pc.phase = "summary_done" /\ ~crashed
    /\ IF FullTitle = "Valuation Ratios" /\ full_summary_df = <<>>
       THEN /\ crashed' = TRUE
            /\ console' = Append(console, Line("traceback", FullTitle))
            /\ UNCHANGED <<written, pc, full_summary_df, available_items>>
       ELSE IF full_summary_df = <<>>
       THEN /\ written' = Append(written,
                                 [kind |-> "sheet", name |-> FullTitle,
                                  placeholder |-> TRUE,
                                  table |-> <<"No data available for this section">>,
                                  charts |-> <<>>])
            /\ pc' = full_next_section(pc.sec)
            /\ UNCHANGED <<crashed, full_summary_df, available_items, console>>
       ELSE /\ written' = Append(written,
                                 [kind |-> "sheet", name |-> FullTitle,
                                  placeholder |-> FALSE,
                                  table |-> sheet_table(full_summary_df),
                                  charts |-> <<>>])
            /\ available_items' = <<>>
            /\ pc' = [phase |-> "available", sec |-> pc.sec, idx |-> 1]
            /\ UNCHANGED <<crashed, full_summary_df, console>>
    /\ UNCHANGED <<script, down, feed, per_page, flaky, data, calls, html, json_data, page>>
    /\ UNCHANGED <<retVars, fetchVars, normVars, schedVars>>

\* lines 618-620: available_items keeps the items whose fetch is not empty
FullAvailable ==
    /\ script = "full" /\ pc.phase = "available" /\ ~crashed
    /\ \E fails \in Outcomes(FullItem.ident) :
         LET r == fetch_any(FullItem.ident, START, fails)
         IN  /\ available_items' = IF empty(r.series) THEN available_items
                                   ELSE Append(available_items, FullItem)
             /\ console' = warn(console, r, FullItem.ident)
    /\ calls' = Bump(calls, <<FullItem.ident, START>>)
    /\ pc' = full_next_item("pages")
    /\ page' = NoPage
    /\ UNCHANGED <<script, down, feed, per_page, flaky, data, html, json_data, full_summary_df,
                   written, crashed>>
    /\ UNCHANGED <<retVars, fetchVars, normVars, schedVars>>

\* (variant: the quotient rounded down)
num_pages_floor(n) == n \div per_page

\* int(np.ceil(num_series / max_series_per_page))
num_pages(n) == (n + per_page - 1) \div per_page

\* available_items[start_idx:end_idx]
slice(q, start_idx, end_idx) ==
    SubSeq(q, start_idx + 1, IF end_idx < Len(q) THEN end_idx ELSE Len(q))

\* lines 621-632 and 388-424: the next page's subset and its summary table, or
\* the end of the section when no page is left
FullPageStart ==
    /\ script = "full" /\ pc.phase = "pages" /\ ~crashed
    /\ IF page.page_idx >= num_pages(Len(available_items))
       THEN /\ pc' = full_next_section(pc.sec)
            /\ full_summary_df' = <<>>
            /\ available_items' = <<>>
            /\ page' = NoPage
       ELSE LET subset_items == slice(available_items,
                                      page.page_idx * per_page,
                                      page.page_idx * per_page + per_page)
                names == {subset_items[i].name : i \in 1..Len(subset_items)}
            IN  /\ page' = [page_idx |-> page.page_idx,
                            subset_items |-> subset_items,
                            subset_summary |->
                                SelectSeq(full_summary_df, LAMBDA r : r.Series \in names),
                            drawn |-> <<>>]
                /\ pc' = [phase |-> "draw", sec |-> pc.sec, idx |-> 1]
                /\ UNCHANGED <<full_summary_df, available_items>>
    /\ UNCHANGED <<script, down, feed, per_page, flaky, data, calls, html, json_data,
                   written, crashed, console>>
    /\ UNCHANGED <<retVars, fetchVars, normVars, schedVars>>

\* lines 459-495: the two fetches and the two panels of one series of the page
FullDrawSeries ==
    /\ script = "full" /\ pc.phase = "draw" /\ ~crashed
    /\ \E fails, fails_full \in Outcomes(page.subset_items[pc.idx].ident) :
         LET it == page.subset_items[pc.idx]
             r == fetch_any(it.ident, START, fails)
             r_full == fetch_any(it.ident, Day1900, fails_full)
         IN  /\ page' = [page EXCEPT !.drawn =
                            Append(@, [ident |-> it.ident, name |-> it.name,
                                       plotted |-> ~empty(r.series)])]
             /\ calls' = Bump(Bump(calls, <<it.ident, START>>), <<it.ident, Day1900>>)
             /\ console' = warn(warn(console, r, it.ident), r_full, it.ident)
    /\ pc' = IF pc.idx < Len(page.subset_items) THEN [pc EXCEPT !.idx = @ + 1]
             ELSE [phase |-> "save_page", sec |-> pc.sec, idx |-> 0]
    /\ UNCHANGED <<script, down, feed, per_page, flaky, data, html, json_data, full_summary_df,
                   available_items, written, crashed>>
    /\ UNCHANGED <<retVars, fetchVars, normVars, schedVars>>

\* lines 641-642: pdf.savefig(fig)
FullSavePage ==
    /\ script = "full" /\ pc.phase = "save_page" /\ ~crashed
    /\ written' = Append(written,
                         [kind |-> "page", name |-> FullTitle,
                          placeholder |-> page.subset_summary = <<>>,
                          table |-> IF page.subset_summary = <<>>
                                    THEN <<"No data available">>
                                    ELSE [i \in 1..Len(page.subset_summary) |->
                                             display_row(page.subset_summary[i])],
                          charts |-> [i \in 1..Len(page.drawn) |-> page.drawn[i].name]])
    /\ page' = [NoPage EXCEPT !.page_idx = page.page_idx + 1]
    /\ pc' = [phase |-> "pages", sec |-> pc.sec, idx |-> 0]
    /\ UNCHANGED <<script, down, feed, per_page, flaky, data, calls, html, json_data,
                   full_summary_df, available_items, crashed, console>>
    /\ UNCHANGED <<retVars, fetchVars, normVars, schedVars>>

\* lines 595-596 and 643-644: leaving the two with blocks saves the PDF and the
\* workbook
FullFinish ==
    /\ script = "full" /\ pc.phase = "finish" /\ ~crashed
    /\ written' = written \o
                    << [kind |-> "file", name |-> "macro_monitor_full.pdf",
                        placeholder |-> FALSE, table |-> <<>>, charts |-> <<>>],
                       [kind |-> "file", name |-> "global_macro_tracker_full.xlsx",
                        placeholder |-> FALSE, table |-> <<>>, charts |-> <<>>] >>
    /\ console' = console \o <<Line("saved", "macro_monitor_full.pdf"),
                                Line("saved", "global_macro_tracker_full.xlsx")>>
    /\ pc' = [phase |-> "done", sec |-> 0, idx |-> 0]
    /\ UNCHANGED <<script, down, feed, per_page, flaky, data, calls, html, json_data,
                   full_summary_df, available_items, page, crashed>>
    /\ UNCHANGED <<retVars, fetchVars, normVars, schedVars>>

FullInit ==
    /\ script = "full"
    /\ down \in DownSets(FullIdents,
                         {{it.ident : it \in SeqRange(sections[k].series)} : k \in 1..Len(sections)})
    /\ feed \in Feeds
    /\ pc = [phase |-> "summary", sec |-> 1, idx |-> 1]
    /\ data = <<>> /\ calls = <<>> /\ html = <<>> /\ json_data = <<>>
    /\ full_summary_df = <<>> /\ available_items = <<>> /\ page = NoPage
    /\ written = <<>> /\ crashed = FALSE
    /\ per_page = max_series_per_page /\ flaky = {}
    /\ console = <<>>

FullNext ==
    \/ FullSummaryRow
    \/ FullValuationRow
    \/ FullWriteSheet
    \/ FullAvailable
    \/ FullPageStart
    \/ FullDrawSeries
    \/ FullSavePage
    \/ FullFinish

RunNext == HtmlNext \/ FullNext

\* build_full_report called with max_series_per_page from 1 to MaxPerPage
\* (main passes 2, the default is 4), and providers that may fail at one
\* fetch of an identifier and answer at another
MaxPerPage == 4

FlakySets == {{}, {"XLB"}, {"CAPE"}, {"VNQ"}}

FullVarDown == {{}, {"XLB"}, {"SP500", "IWB", "IWM"}, {"IWF", "IWD", "IWO"}}

FullVarInit ==
    /\ script = "full"
    /\ down \in FullVarDown
    /\ feed = << [t |-> 1826, v |-> Num(250)], [t |-> 2191, v |-> Num(275)] >>
    /\ pc = [phase |-> "summary", sec |-> 1, idx |-> 1]
    /\ data = <<>> /\ calls = <<>> /\ html = <<>> /\ json_data = <<>>
    /\ full_summary_df = <<>> /\ available_items = <<>> /\ page = NoPage
    /\ written = <<>> /\ crashed = FALSE
    /\ per_page \in 1..MaxPerPage /\ flaky \in FlakySets
    /\ console = <<>>

----------------------------------------------------------------------------
(* Normalization for charting: normalized_100 of generate_html.py and       *)
(* compute_normalized of macro_report_full.py.  A result keeps the index   *)
(* of its input.                                                            *)

\* Series op scalar, element by element
series_div(S, x) == [i \in 1..Len(S) |-> [t |-> S[i].t, v |-> FDiv(S[i].v, x)]]
series_mul(S, x) == [i \in 1..Len(S) |-> [t |-> S[i].t, v |-> FMul(S[i].v, x)]]

\* pd.Series(index=s.index, dtype=float): every value NaN
nan_series(S) == [i \in 1..Len(S) |-> [t |-> S[i].t, v |-> NaN]]

\* (variant: the base taken from the last observation)
normalized_100_by_last(S) ==
    IF empty(S) THEN S
    ELSE LET base == iloc_last(S)
         IN  IF IsZero(base) \/ isna(base) THEN nan_series(S)
             ELSE series_mul(series_div(S, base), Num(100))

normalized_100(S) ==
    IF empty(S) THEN S
    ELSE LET base == iloc_first(S)
         IN  IF IsZero(base) \/ isna(base) THEN nan_series(S)
             ELSE series_mul(series_div(S, base), Num(100))

\* (variant: without the test of a zero base)
compute_normalized_no_zero_check(S) ==
    IF empty(S) THEN S
    ELSE series_mul(series_div(S, iloc_first(S)), Num(100))

compute_normalized(S) ==
    IF empty(S) THEN S
    ELSE LET base == iloc_first(S)
         IN  IF IsZero(base) THEN series_mul(S, NaN)
             ELSE series_mul(series_div(S, base), Num(100))

\* 2023-01-01, 2023-05-02, 2023-12-02, 2024-01-01
NormDates == {1826, 1947, 2161, 2191}
NormValues == {NaN, Num(0), Num(250), Num(275)}
MaxNormLen == 3

NormInit ==
    /\ nseries \in UNION {[1..n -> [t : NormDates, v : NormValues]] : n \in 0..MaxNormLen}
    /\ \A i, j \in 1..Len(nseries) : i < j => nseries[i].t < nseries[j].t
    /\ norm_100 = <<>> /\ norm_full = <<>>
    /\ norm_applied = {}

NormIdle ==
    /\ nseries = <<>> /\ norm_100 = <<>> /\ norm_full = <<>>
    /\ norm_applied = {}

Normalized100 ==
    /\ "normalized_100" \notin norm_applied
    /\ norm_100' = normalized_100(nseries)
    /\ norm_applied' = norm_applied \cup {"normalized_100"}
    /\ UNCHANGED <<nseries, norm_full>>
    /\ UNCHANGED <<retVars, fetchVars, runVars, schedVars>>

ComputeNormalized ==
    /\ "compute_normalized" \notin norm_applied
    /\ norm_full' = compute_normalized(nseries)
    /\ norm_applied' = norm_applied \cup {"compute_normalized"}
    /\ UNCHANGED <<nseries, norm_100>>
    /\ UNCHANGED <<retVars, fetchVars, runVars, schedVars>>

NormNext == Normalized100 \/ ComputeNormalized

----------------------------------------------------------------------------
(* macro_update_scheduler.py.  now is the Pacific wall clock in seconds     *)
(* since a Monday 00:00:00; daylight-saving changes are not carried.        *)

SleepSeconds == 600

\* datetime.weekday(): Monday = 0 ... Sunday = 6
weekday(clock) == (clock \div 86400) % 7
\* datetime.time() as seconds since midnight
time(clock) == clock % 86400
dtime(h, mi) == h * 3600 + mi * 60

\* (variant: the closing time excluded)
within_market_hours_end_exclusive(clock) ==
    IF weekday(clock) >= 5 THEN FALSE
    ELSE dtime(6, 30) <= time(clock) /\ time(clock) < dtime(13, 0)

within_market_hours(clock) ==
    IF weekday(clock) >= 5 THEN FALSE
    ELSE LET start == dtime(6, 30)
             end == dtime(13, 0)
         IN  start <= time(clock) /\ time(clock) <= end

MaxPolls == 4

\* seconds a run of macro_report_full.py takes
Durations == {0, 45, 600}

\* Monday 06:20:00, 06:29:59 and 06:30:00; Wednesday 12:40:00 and 12:50:00;
\* Friday 12:50:01; Saturday 06:30:00; Sunday 12:00:00
StartClocks ==
    {dtime(6, 20), dtime(6, 30) - 1, dtime(6, 30),
     2 * 86400 + dtime(12, 40), 2 * 86400 + dtime(12, 50),
     4 * 86400 + dtime(12, 50) + 1,
     5 * 86400 + dtime(6, 30), 6 * 86400 + dtime(12, 0)}

NoPoll == [at |-> 0, within |-> FALSE, ran |-> FALSE]

SchedInit ==
    /\ now \in StartClocks
    /\ sched_pc = "poll"
    /\ last_poll = NoPoll
    /\ starts = <<>>
    /\ polls = 0

SchedIdle ==
    /\ now = 0 /\ sched_pc = "off" /\ last_poll = NoPoll /\ starts = <<>> /\ polls = 0

\* lines 93-94 and 96-97: read the clock and test it
SchedPoll ==
    /\ sched_pc = "poll"
    /\ last_poll' = [at |-> now, within |-> within_market_hours(now), ran |-> FALSE]
    /\ sched_pc' = IF within_market_hours(now) THEN "run_report" ELSE "sleep"
    /\ polls' = polls + 1
    /\ UNCHANGED <<now, starts>>
    /\ UNCHANGED <<retVars, fetchVars, runVars, normVars>>

\* lines 74-81 and 95: subprocess.run blocks until the report script exits and
\* returns its exit status, zero or not; when the process cannot be launched
\* (no 'python' executable on the PATH) it raises OSError, which neither
\* run_report nor main catches
RunReport ==
    /\ sched_pc = "run_report"
    /\ \E launched \in BOOLEAN, d \in Durations, rc \in {0, 1} :
          IF launched
          THEN /\ starts' = Append(starts, [at |-> now, duration |-> d,
                                            returncode |-> rc])
               /\ now' = now + d
               /\ sched_pc' = "sleep"
          ELSE /\ sched_pc' = "traceback"
               /\ UNCHANGED <<starts, now>>
    /\ last_poll' = [last_poll EXCEPT !.ran = TRUE]
    /\ UNCHANGED polls
    /\ UNCHANGED <<retVars, fetchVars, runVars, normVars>>

\* line 99: time.sleep(600), then the next iteration
SchedSleep ==
    /\ sched_pc = "sleep"
    /\ polls < MaxPolls
    /\ now' = now + SleepSeconds
    /\ sched_pc' = "poll"
    /\ UNCHANGED <<last_poll, starts, polls>>
    /\ UNCHANGED <<retVars, fetchVars, runVars, normVars>>

SchedNext == SchedPoll \/ RunReport \/ SchedSleep

----------------------------------------------------------------------------
(* Inputs of the return calculators.                                       *)

\* 2023-01-01, 2023-05-02, 2023-06-01, 2023-12-02, 2024-01-01
Dates == {1826, 1947, 1977, 2161, 2191}
EndDates == {1977, 2191}
Values == {0, 250, 275}
MaxLen == 3

RECURSIVE SortedSeq(_)
SortedSeq(D) ==
    IF D = {} THEN <<>>
    ELSE LET m == CHOOSE x \in D : \A y \in D : x <= y
         IN  <<m>> \o SortedSeq(D \ {m})

\* every strictly increasing observation sequence over Dates of length <= MaxLen
SeriesOver(DD, VV, n) ==
    UNION { { [i \in 1..Len(SortedSeq(D)) |-> [t |-> SortedSeq(D)[i], v |-> Num(f[SortedSeq(D)[i]])]]
              : f \in [D -> VV] }
            : D \in {X \in SUBSET DD : Cardinality(X) <= n} }

RetInit ==
    /\ s \in SeriesOver(Dates, Values, MaxLen)
    /\ end_date \in EndDates
    /\ diff_mode \in BOOLEAN
    /\ ret = <<>>
    /\ returns = <<>>
    /\ applied = {}

RetIdle ==
    /\ s = <<>> /\ end_date = 0 /\ diff_mode = FALSE
    /\ ret = <<>> /\ returns = <<>>
    /\ applied = {}

ComputeReturns ==
    /\ "compute_returns" \notin applied
    /\ ret' = compute_returns(s, end_date, diff_mode)
    /\ applied' = applied \cup {"compute_returns"}
    /\ UNCHANGED <<s, end_date, diff_mode, returns>>
    /\ UNCHANGED <<fetchVars, runVars, normVars, schedVars>>

ComputeReturnsForSeries ==
    /\ "compute_returns_for_series" \notin applied
    /\ returns' = compute_returns_for_series(s, end_date, diff_mode)
    /\ applied' = applied \cup {"compute_returns_for_series"}
    /\ UNCHANGED <<s, end_date, diff_mode, ret>>
    /\ UNCHANGED <<fetchVars, runVars, normVars, schedVars>>

RetNext == ComputeReturns \/ ComputeReturnsForSeries

SpecRetInit == RetInit /\ FetchIdle /\ RunIdle /\ NormIdle /\ SchedIdle

SpecRet == SpecRetInit /\ [][RetNext]_vars

FetchNext == FetchSeries \/ FetchSeriesAny

SpecFetchInit == FetchInit /\ RetIdle /\ RunIdle /\ NormIdle /\ SchedIdle

SpecFetch == SpecFetchInit /\ [][FetchNext]_vars

SpecNormInit == NormInit /\ RetIdle /\ FetchIdle /\ RunIdle /\ SchedIdle

SpecNorm == SpecNormInit /\ [][NormNext]_vars

SpecSchedInit == SchedInit /\ RetIdle /\ FetchIdle /\ RunIdle /\ NormIdle

SpecSched == SpecSchedInit /\ [][SchedNext]_vars

SpecRunInit == (HtmlInit \/ FullInit) /\ RetIdle /\ FetchIdle /\ NormIdle /\ SchedIdle

SpecRun == SpecRunInit /\ [][RunNext]_vars

SpecFullInit == FullVarInit /\ RetIdle /\ FetchIdle /\ NormIdle /\ SchedIdle

SpecFull == SpecFullInit /\ [][FullNext]_vars

----------------------------------------------------------------------------
(* Properties of the return calculators (checked under SpecRet).           *)

HtmlDone == "compute_returns" \in applied
FullDone == "compute_returns_for_series" \in applied
LabelSet(labels) == {labels[i] : i \in 1..Len(labels)}

\* the value of the latest observation of S with timestamp <= t, NaN if none
HasAtOrBefore(S, t) == \E i \in 1..Len(S) : S[i].t <= t
LatestAtOrBefore(S, t) ==
    IF ~HasAtOrBefore(S, t) THEN NaN
    ELSE LET i == CHOOSE j \in 1..Len(S) :
                      /\ S[j].t <= t
                      /\ \A m \in 1..Len(S) : S[m].t <= t => S[m].t <= S[j].t
         IN  S[i].v

BoundaryIsLatest(out) ==
    \A k \in DOMAIN out :
        /\ out[k].boundary_value = LatestAtOrBefore(s, out[k].boundary)
        /\ ~\E i \in 1..Len(s) : /\ s[i].t > out[k].boundary
                                 /\ ~HasAtOrBefore(s, out[k].boundary)
                                 /\ s[i].v = out[k].boundary_value

\* C1: for every non-empty sequence, end date and horizon, the boundary value
\* used is the value of the latest observation at or before the horizon's
\* boundary timestamp, in compute_returns and in compute_returns_for_series.
C1_BoundaryIsLatestAtOrBefore ==
    ~empty(s) =>
        /\ HtmlDone => BoundaryIsLatest(ret)
        /\ FullDone => BoundaryIsLatest(returns)

\* C1 restricted to compute_returns of generate_html.py
C1_HtmlBoundaryIsLatest == (~empty(s) /\ HtmlDone) => BoundaryIsLatest(ret)

UndefinedBeforeHistory(out) ==
    \A k \in DOMAIN out :
        ~HasAtOrBefore(s, out[k].boundary) => isna(out[k].value)

\* C2: a horizon whose boundary is earlier than the first observation has an
\* undefined return value, in both calculators.
C2_UndefinedWhenNoHistory ==
    /\ HtmlDone => UndefinedBeforeHistory(ret)
    /\ FullDone => UndefinedBeforeHistory(returns)

\* C2 restricted to compute_returns of generate_html.py
C2_HtmlUndefinedWhenNoHistory == HtmlDone => UndefinedBeforeHistory(ret)

\* a horizon whose return was computed from two selected operands
CurrentIsLatestAtEnd(out) ==
    \A k \in DOMAIN out :
        ~isna(out[k].boundary_value) =>
            out[k].current = LatestAtOrBefore(s, end_date)

\* C3: the current value used in every horizon's return is the value of the
\* latest observation with timestamp <= end date; later observations are ignored.
C3_CurrentIsLatestAtOrBeforeEnd ==
    /\ HtmlDone => CurrentIsLatestAtEnd(ret)
    /\ FullDone => CurrentIsLatestAtEnd(returns)

\* C3 when the end date is the last timestamp of the sequence, as every caller
\* in the two scripts passes it
C3_CurrentWhenEndIsLast ==
    (~empty(s) /\ end_date = index_last(s)) =>
        /\ HtmlDone => CurrentIsLatestAtEnd(ret)
        /\ FullDone => CurrentIsLatestAtEnd(returns)

ObservationAt(S, t) == \E i \in 1..Len(S) : S[i].t = t
ValueAt(S, t) == S[CHOOSE i \in 1..Len(S) : S[i].t = t].v

InclusiveBoundary(out) ==
    \A k \in DOMAIN out :
        ObservationAt(s, out[k].boundary) =>
            out[k].boundary_value = ValueAt(s, out[k].boundary)

EndIsJanFirst == end_date = YearStartDay(YearOf(end_date))
LatestOnEnd == ~empty(s) /\ index_last(s) = end_date

YtdIsZero(out) ==
    /\ out["YTD"].boundary_value = out["YTD"].current
    /\ ~diff_mode => out["YTD"].value = Num(0)

YtdIsZeroUnlessValueZero(out) ==
    /\ out["YTD"].boundary_value = out["YTD"].current
    /\ ~diff_mode =>
          out["YTD"].value = IF IsZero(iloc_last(s)) THEN NaN ELSE Num(0)

\* C4 as stated: an observation exactly at a horizon's boundary is the boundary
\* value; with the end date on January 1 and the latest observation on that day
\* the YTD boundary value is the current value and the YTD percentage return is 0.0.
C4_InclusiveBoundaryYtdZero ==
    /\ HtmlDone => InclusiveBoundary(ret)
    /\ FullDone => InclusiveBoundary(returns)
    /\ (EndIsJanFirst /\ LatestOnEnd) =>
          /\ HtmlDone => YtdIsZero(ret)
          /\ FullDone => YtdIsZero(returns)

\* C4 amended: as C4, the YTD percentage return being 0.0 when that day's value
\* is non-zero and undefined when it is 0.
C4_InclusiveBoundaryYtdZeroNonZeroValue ==
    /\ HtmlDone => InclusiveBoundary(ret)
    /\ FullDone => InclusiveBoundary(returns)
    /\ (EndIsJanFirst /\ LatestOnEnd) =>
          /\ HtmlDone => YtdIsZeroUnlessValueZero(ret)
          /\ FullDone => YtdIsZeroUnlessValueZero(returns)

C4_Witness ==
    /\ HtmlDone /\ FullDone /\ ~diff_mode
    /\ EndIsJanFirst /\ LatestOnEnd /\ Len(s) = 3
    /\ ~IsZero(iloc_last(s))
    /\ ret["YTD"].boundary = end_date /\ ret["YTD"].value = Num(0)
    /\ returns["YTD"].value = Num(0)
    /\ \E k \in DOMAIN ret : k # "YTD" /\ ObservationAt(s, ret[k].boundary)

ZeroBoundaryUndefined(out) ==
    \A k \in DOMAIN out :
        /\ IsZero(out[k].boundary_value) => isna(out[k].value)
        /\ out[k].value.tag # "inf"

\* C5: a percentage return with boundary value 0 is undefined for every current
\* value, and no return value is infinite.
C5_ZeroBoundaryPctUndefined ==
    ~diff_mode =>
        /\ HtmlDone => ZeroBoundaryUndefined(ret)
        /\ FullDone => ZeroBoundaryUndefined(returns)

C5_Witness ==
    /\ HtmlDone /\ FullDone /\ ~diff_mode
    /\ \E k \in DOMAIN ret :
          /\ IsZero(ret[k].boundary_value) /\ ~IsZero(ret[k].current)
          /\ IsZero(returns[k].boundary_value) /\ ~IsZero(returns[k].current)
          /\ isna(ret[k].value) /\ isna(returns[k].value)

IsObservedValue(x) == \E i \in 1..Len(s) : s[i].v = x

ExactDifference(out) ==
    \A k \in DOMAIN out :
        IF isna(out[k].current) \/ isna(out[k].boundary_value)
        THEN isna(out[k].value)
        ELSE /\ IsObservedValue(out[k].current)
             /\ IsObservedValue(out[k].boundary_value)
             /\ out[k].value.tag = "num"
             /\ out[k].value.den = 1
             /\ out[k].value.num = out[k].current.num - out[k].boundary_value.num

\* C6: with difference semantics the return value is exactly current minus
\* boundary value, two observations of the sequence, unrounded and unscaled,
\* and is undefined when either operand is undefined.
C6_DifferenceIsExactSubtraction ==
    diff_mode =>
        /\ HtmlDone => ExactDifference(ret)
        /\ FullDone => ExactDifference(returns)

C6_Witness ==
    /\ HtmlDone /\ FullDone /\ diff_mode
    /\ \E k \in DOMAIN ret :
          /\ ret[k].current = Num(275) /\ ret[k].boundary_value = Num(250)
          /\ ret[k].value = Num(25)
          /\ returns[k].value = Num(25)
    /\ \E k \in DOMAIN ret : isna(ret[k].boundary_value) /\ isna(ret[k].value)

----------------------------------------------------------------------------
(* Properties of the fetchers (checked under SpecFetch).                   *)

\* the retrieval of the pending call failed: the provider call raised, the
\* response lacks the data column, or (CAPE) scrape and CSV fallback both failed
RetrievalFailed ==
    IF fetch_call.fn = "fetch_series_any" /\ upper(fetch_call.ident) = "CAPE"
    THEN (fetch_call.scrape.raises \/ fetch_call.scrape.tables = 0)
         /\ fetch_call.csv.raises
    ELSE fetch_call.resp.raises \/ fetch_call.resp.columns = <<>>

\* C8: for every identifier string and every provider outcome the fetcher
\* returns normally, with an empty sequence when the retrieval failed.
C8_FetcherNeverRaises ==
    fetch_result.done =>
        /\ ~fetch_result.raised
        /\ RetrievalFailed => empty(fetch_result.series)

\* C8 restricted to fetch_series_any of macro_report_full.py
C8_FetchSeriesAnyNeverRaises ==
    (fetch_result.done /\ fetch_call.fn = "fetch_series_any") =>
        /\ ~fetch_result.raised
        /\ RetrievalFailed => empty(fetch_result.series)

\* C8 restricted to identifiers with exactly one ':' or more
C8_FetchSeriesWithColonNeverRaises ==
    (fetch_result.done /\ fetch_call.fn = "fetch_series" /\ Len(fetch_call.ident) >= 2) =>
        /\ ~fetch_result.raised
        /\ RetrievalFailed => empty(fetch_result.series)

----------------------------------------------------------------------------
(* Properties of the report runs (checked under SpecRun).                  *)

\* current - boundary and (current / boundary - 1) * 100 on observed values
\* (whole hundredths), stated without the calculators' operators
Difference(a, b) ==
    IF isna(a) \/ isna(b) THEN NaN ELSE Num(a.num - b.num)
Percentage(a, b) ==
    IF isna(a) \/ isna(b) \/ b.num = 0 THEN NaN ELSE Rat(100 * (a.num - b.num), b.num)

FollowsSemantics(out, on_list) ==
    \A k \in DOMAIN out :
        out[k].value = IF on_list
                       THEN Difference(out[k].current, out[k].boundary_value)
                       ELSE Percentage(out[k].current, out[k].boundary_value)

HtmlTableRows == {html[i] : i \in {j \in 1..Len(html) : html[j].kind = "row" /\ ~html[j].nodata}}

FullIdentOf(name) ==
    (CHOOSE it \in SeqRange(sections[pc.sec].series) : it.name = name).ident

FullReturnRows ==
    {full_summary_df[i] : i \in {j \in 1..Len(full_summary_df) :
                                     full_summary_df[j].returns # <<>>}}

\* the feed that goes from 2.50 (2023-01-01) to 2.75 (2024-01-01)
FeedRises == feed[1].v = Num(250) /\ feed[Len(feed)].v = Num(275)

\* C7: every identifier of a return table is computed with difference
\* semantics if its code is on the script's yield/spread list and with
\* percentage semantics otherwise; 2.50 -> 2.75 reports 0.25 on the list and
\* 10 (percent) off it.
C7_SemanticsFollowAllowList ==
    /\ \A r \in HtmlTableRows :
          /\ FollowsSemantics(r.ret, r.ident[2] \in YIELD_OR_SPREAD)
          /\ FeedRises =>
                r.ret["1Y"].value =
                    IF r.ident[2] \in YIELD_OR_SPREAD THEN Num(25) ELSE Num(10)
    /\ \A r \in FullReturnRows :
          /\ FollowsSemantics(r.returns, FullIdentOf(r.Series) \in YIELD_SERIES)
          /\ FeedRises =>
                r.returns["1Y"].value =
                    IF FullIdentOf(r.Series) \in YIELD_SERIES THEN Num(25) ELSE Num(10)

C7_Witness ==
    /\ script = "html" /\ pc.phase = "done" /\ FeedRises
    /\ \E r \in HtmlTableRows :
          r.ident = <<"FRED", "DGS10">> /\ r.ret["1Y"].value = Num(25)
    /\ \E r \in HtmlTableRows :
          r.ident = <<"FRED", "SP500">> /\ r.ret["1Y"].value = Num(10)

C7_WitnessFull ==
    /\ script = "full" /\ pc.phase = "summary_done" /\ FeedRises
    /\ \E r \in FullReturnRows :
          r.Series = "BBB Corporate Yield" /\ r.returns["1Y"].value = Num(25)
    /\ \E r \in FullReturnRows :
          r.Series = "CBOE VIX Index" /\ r.returns["1Y"].value = Num(10)

Files == {written[i].name : i \in {j \in 1..Len(written) : written[j].kind = "file"}}

\* C9: for every combination of fetch outcomes the run finishes without an
\* unhandled error, having written all of its output artifacts.
C9_RunAlwaysWritesOutputs ==
    /\ ~crashed
    /\ pc.phase = "done" =>
          Files = IF script = "html" THEN {OUT_HTML, OUT_JSON}
                  ELSE {"macro_monitor_full.pdf", "global_macro_tracker_full.xlsx"}

\* C9 restricted to generate_html.py
C9_HtmlRunAlwaysWritesOutputs ==
    script = "html" =>
        /\ ~crashed
        /\ pc.phase = "done" => Files = {OUT_HTML, OUT_JSON}

\* C10 as stated: in one run the provider is called at most once per identifier
\* and window.
C10_AtMostOneCallPerIdentifier ==
    \A k \in DOMAIN calls : calls[k] <= 1

\* C10 amended: in a run of generate_html.py the provider is called at most
\* once per identifier; the first fetch fills data, keyed by identifier, and
\* every row, chart pair and JSON entry of every section is made from data.
\* macro_report_full.py keeps no lookup and calls the provider again at each
\* use, up to three times per identifier and window.
C10_HtmlMemoizedFullRefetches ==
    /\ script = "html" =>
          /\ \A k \in DOMAIN calls : calls[k] = 1 /\ k[1] \in DOMAIN data
          /\ pc.phase # "fetch" => DOMAIN data = HtmlIdents
          /\ \A i \in 1..Len(html) :
                /\ html[i].ident \in DOMAIN data
                /\ html[i].nodata = empty(data[html[i].ident])
                /\ (html[i].kind = "row" /\ ~html[i].nodata) =>
                      html[i].current_val = iloc_last(data[html[i].ident])
          /\ \A i \in 1..Len(json_data) :
                \E id \in DOMAIN data :
                    ~empty(data[id]) /\ json_data[i].current = iloc_last(data[id])
    /\ script = "full" => \A k \in DOMAIN calls : calls[k] <= 3

C10_Witness ==
    /\ script = "html" /\ pc.phase = "done"
    /\ calls[<< <<"STQ", "XLE">>, START >>] = 1
    /\ Cardinality({i \in 1..Len(html) :
                       /\ html[i].kind = "row" /\ ~html[i].nodata
                       /\ html[i].ident = <<"STQ", "XLE">>}) = 2

C10_WitnessFull ==
    /\ script = "full" /\ pc.phase = "done"
    /\ calls[<<"SP500", START>>] = 3

----------------------------------------------------------------------------
(* Properties of the fetchers' results (checked under SpecFetch).          *)

\* the rows the answering source handed over in the pending call
ResponseRows ==
    IF fetch_call.fn = "fetch_series_any" /\ upper(fetch_call.ident) = "CAPE"
    THEN IF ~fetch_call.scrape.raises /\ fetch_call.scrape.tables > 0
         THEN fetch_call.scrape.rows ELSE fetch_call.csv.rows
    ELSE fetch_call.resp.rows

\* the pending call got a usable response from a source it knows
Retrieved ==
    IF fetch_call.fn = "fetch_series"
    THEN /\ Len(fetch_call.ident) >= 2
         /\ ~fetch_call.resp.raises
         /\ \/ fetch_call.ident[1] = "FRED" /\ fetch_call.resp.columns # <<>>
            \/ fetch_call.ident[1] = "STQ" /\ fetch_call.resp.columns = <<"Close">>
    ELSE ~RetrievalFailed

InWindow(t) == fetch_call.window[1] <= t /\ t <= fetch_call.window[2]

Increasing(S) == \A i, j \in 1..Len(S) : i < j => S[i].t < S[j].t

\* C11: every observation of a returned sequence lies in the requested
\* window, start <= timestamp <= end, whatever range the source returned.
C11_ResultWithinWindow ==
    (fetch_result.done /\ ~fetch_result.raised) =>
        \A i \in 1..Len(fetch_result.series) : InWindow(fetch_result.series[i].t)

\* a response with a known value outside the window and one inside it
C11_Witness ==
    /\ fetch_result.done /\ fetch_call.fn = "fetch_series"
    /\ fetch_result.series # <<>>
    /\ \E r \in SeqRange(ResponseRows) : ~InWindow(r.t) /\ ~isna(r.v)

C11_WitnessCape ==
    /\ fetch_result.done /\ fetch_call.ident = "CAPE"
    /\ fetch_result.series # <<>>
    /\ \E r \in SeqRange(ResponseRows) : ~InWindow(r.t) /\ ~isna(r.v) /\ ~IsZero(r.v)

\* the last row of the response that carries timestamp t
LatestRowAt(t) ==
    ResponseRows[CHOOSE i \in 1..Len(ResponseRows) :
                     /\ ResponseRows[i].t = t
                     /\ \A j \in (i + 1)..Len(ResponseRows) : ResponseRows[j].t # t]

\* C12: every returned sequence is strictly increasing in timestamp, whatever
\* order or duplicates the response has, and of several values for one
\* timestamp only the latest is kept.
C12_StrictlyIncreasingLatestKept ==
    (fetch_result.done /\ ~fetch_result.raised) =>
        /\ Increasing(fetch_result.series)
        /\ \A i \in 1..Len(fetch_result.series) :
              fetch_result.series[i].v = LatestRowAt(fetch_result.series[i].t).v

\* C12 restricted to responses that are already strictly increasing
C12_IncreasingResponseStaysIncreasing ==
    (fetch_result.done /\ ~fetch_result.raised /\ Increasing(ResponseRows)) =>
        Increasing(fetch_result.series)

\* C12 restricted to order: the branches that sort return non-decreasing
\* timestamps
C12_SortingBranchesAreOrdered ==
    (/\ fetch_result.done /\ ~fetch_result.raised
     /\ \/ fetch_call.fn = "fetch_series" /\ fetch_call.ident[1] = "STQ"
        \/ fetch_call.fn = "fetch_series_any" /\ upper(fetch_call.ident) \in stooq_tickers) =>
        \A i, j \in 1..Len(fetch_result.series) :
            i < j => fetch_result.series[i].t <= fetch_result.series[j].t

\* row i of an increasing response is absent, lies in the window and has a
\* known value before it
GapAfterKnown(i) ==
    /\ isna(ResponseRows[i].v)
    /\ InWindow(ResponseRows[i].t)
    /\ \E j \in 1..(i - 1) : ~isna(ResponseRows[j].v)

LastKnownBefore(i) ==
    ResponseRows[CHOOSE j \in 1..(i - 1) :
                     /\ ~isna(ResponseRows[j].v)
                     /\ \A n \in (j + 1)..(i - 1) : isna(ResponseRows[n].v)].v

\* C13: an absent value at a timestamp inside the window that is preceded by a
\* known value appears in the result at that timestamp, carrying the most
\* recent earlier known value.
C13_GapsAreForwardFilled ==
    (fetch_result.done /\ Retrieved /\ Increasing(ResponseRows)) =>
        \A i \in 1..Len(ResponseRows) :
            GapAfterKnown(i) =>
                \E k \in 1..Len(fetch_result.series) :
                    /\ fetch_result.series[k].t = ResponseRows[i].t
                    /\ fetch_result.series[k].v = LastKnownBefore(i)

\* C13 restricted to the CAPE series with non-zero known values, the one path
\* that fills before it drops
C13_CapeGapsAreForwardFilled ==
    (/\ fetch_result.done /\ Retrieved /\ Increasing(ResponseRows)
     /\ fetch_call.fn = "fetch_series_any" /\ upper(fetch_call.ident) = "CAPE"
     /\ \A r \in SeqRange(ResponseRows) : ~IsZero(r.v)) =>
        \A i \in 1..Len(ResponseRows) :
            GapAfterKnown(i) =>
                \E k \in 1..Len(fetch_result.series) :
                    /\ fetch_result.series[k].t = ResponseRows[i].t
                    /\ fetch_result.series[k].v = LastKnownBefore(i)

\* C13, what the two generic paths do instead: the absent row is omitted
C13_GenericPathsDropGaps ==
    (/\ fetch_result.done /\ Retrieved
     /\ ~(fetch_call.fn = "fetch_series_any" /\ upper(fetch_call.ident) = "CAPE")) =>
        \A i \in 1..Len(ResponseRows) :
            (isna(ResponseRows[i].v) /\ \A j \in 1..Len(ResponseRows) :
                                            j # i => ResponseRows[j].t # ResponseRows[i].t) =>
                ResponseRows[i].t \notin index(fetch_result.series)

\* the pending call ends empty because of a failure: the retrieval failed, the
\* source tag is unknown, or the response lacks the column the branch reads
FetchFailed ==
    fetch_result.done /\ ~fetch_result.raised /\ ~Retrieved

\* C20: every fetch that ends empty because of a failure is reported to the
\* operator as a warning; no failure path is silent, and the warning is not
\* suppressed when the script runs as a program.
C20_FailuresAreReported ==
    FetchFailed => empty(fetch_result.series) /\ fetch_result.shown

\* C20 restricted to fetch_series_any, which prints its warning
C20_FetchSeriesAnyReportsFailures ==
    (FetchFailed /\ fetch_call.fn = "fetch_series_any") =>
        empty(fetch_result.series) /\ fetch_result.shown

\* C20 restricted to fetch_series used as a module with a known source tag
C20_ImportedFetchSeriesWarnsKnownTags ==
    (/\ FetchFailed /\ fetch_call.fn = "fetch_series" /\ ~fetch_call.main
     /\ fetch_call.ident[1] \in {"FRED", "STQ"}) =>
        empty(fetch_result.series) /\ fetch_result.shown

\* C20, the suppression: run as a program, generate_html.py shows no warning
C20_ProgramFetchSeriesIsSilent ==
    (fetch_result.done /\ fetch_call.fn = "fetch_series" /\ fetch_call.main) =>
        ~fetch_result.shown

----------------------------------------------------------------------------
(* Properties of the normalization (checked under SpecNorm).               *)

NormResults ==
    (IF "normalized_100" \in norm_applied THEN {norm_100} ELSE {}) \cup
    (IF "compute_normalized" \in norm_applied THEN {norm_full} ELSE {})

SameTimestamps(out) ==
    Len(out) = Len(nseries) /\ \A i \in 1..Len(out) : out[i].t = nseries[i].t

\* value / first * 100 on whole hundredths, stated without the model's float
\* operators; an absent value stays absent
Rescaled(v, first) == IF isna(v) THEN NaN ELSE Rat(100 * v.num, first.num)

FirstIsUsable == ~empty(nseries) /\ ~isna(nseries[1].v) /\ ~IsZero(nseries[1].v)
FirstIsZeroOrUndefined == ~empty(nseries) /\ (isna(nseries[1].v) \/ IsZero(nseries[1].v))

\* C15: for a non-empty sequence whose first value is defined and non-zero the
\* normalized sequence has the input's timestamps, starts at 100, and every
\* value is input value / first value * 100.
C15_NormalizedToHundred ==
    FirstIsUsable =>
        \A out \in NormResults :
            /\ SameTimestamps(out)
            /\ out[1].v = Num(100)
            /\ \A i \in 1..Len(out) : out[i].v = Rescaled(nseries[i].v, nseries[1].v)

\* 2.50, 2.75 normalizes to 100, 110 in both scripts
C15_Witness ==
    /\ norm_applied = {"normalized_100", "compute_normalized"}
    /\ Len(nseries) >= 2
    /\ nseries[1].v = Num(250) /\ nseries[2].v = Num(275)
    /\ norm_100[2].v = Num(110) /\ norm_full[2].v = Num(110)

\* C16: for a non-empty sequence whose first value is 0 or undefined both
\* normalized_100 and compute_normalized return the input's timestamps with
\* every value undefined, and no infinite value.
C16_ZeroOrUndefinedBaseGivesUndefined ==
    FirstIsZeroOrUndefined =>
        \A out \in NormResults :
            /\ SameTimestamps(out)
            /\ \A i \in 1..Len(out) : isna(out[i].v) /\ out[i].v.tag # "inf"

\* both functions applied to a sequence that starts at 0 and goes on to 2.50
C16_Witness ==
    /\ norm_applied = {"normalized_100", "compute_normalized"}
    /\ Len(nseries) >= 2
    /\ IsZero(nseries[1].v) /\ nseries[2].v = Num(250)
    /\ isna(norm_100[2].v) /\ isna(norm_full[2].v)

\* an undefined first value, which compute_normalized does not test for
C16_WitnessUndefinedBase ==
    /\ norm_applied = {"normalized_100", "compute_normalized"}
    /\ Len(nseries) >= 2
    /\ isna(nseries[1].v) /\ nseries[2].v = Num(250)
    /\ isna(norm_full[2].v)

----------------------------------------------------------------------------
(* Properties of the scheduler (checked under SpecSched).                  *)

\* Monday through Friday, 6:30 AM <= t <= 1:00 PM, on the clock's day and
\* second of day
MarketHours(clock) ==
    LET day == clock \div 86400
        second == clock - day * 86400
    IN  /\ day % 7 \in {0, 1, 2, 3, 4}
        /\ 6 * 3600 + 30 * 60 <= second
        /\ second <= 13 * 3600

\* C18: at every poll the report generator is invoked if and only if the
\* polled time is Monday through Friday with 6:30 AM <= t <= 1:00 PM, both
\* ends included; at every other poll the scheduler only sleeps.
C18_ReportRunsIffMarketHours ==
    /\ sched_pc = "run_report" => MarketHours(last_poll.at)
    /\ sched_pc = "sleep" => (last_poll.ran <=> MarketHours(last_poll.at))
    /\ \A i \in 1..Len(starts) : MarketHours(starts[i].at)

\* a report started by a poll at 1:00:00 PM sharp, and a poll one second
\* before 6:30 AM that only sleeps
C18_Witness ==
    /\ sched_pc = "sleep" /\ last_poll.ran
    /\ last_poll.at % 86400 = 13 * 3600

C18_WitnessSkipped ==
    /\ sched_pc = "sleep" /\ ~last_poll.ran
    /\ last_poll.at = 6 * 3600 + 30 * 60 - 1

SameSession(a, b) == a \div 86400 = b \div 86400

\* C19: while the time stays within market hours, consecutive report
\* generations start ten minutes apart, whatever a report run lasts.
C19_StartsTenMinutesApart ==
    \A i \in 1..(Len(starts) - 1) :
        SameSession(starts[i].at, starts[i + 1].at) =>
            starts[i + 1].at - starts[i].at = 600

\* C19, what the loop does: the next start follows the end of the run by the
\* ten-minute sleep
C19_StartsFollowRunEndByTenMinutes ==
    \A i \in 1..(Len(starts) - 1) :
        SameSession(starts[i].at, starts[i + 1].at) =>
            starts[i + 1].at - starts[i].at = starts[i].duration + 600

----------------------------------------------------------------------------
(* Properties of the rendered outputs (checked under SpecRun).             *)

\* the explicit markers the scripts use: the "No data" row, 'NA', JSON null
IsNoDataMarker(c) ==
    \/ c.kind = "null"
    \/ c.kind = "text" /\ c.text \in {"No data", "NA"}

IsBlank(c) == c.kind = "blank" \/ (c.kind = "text" /\ c.text = "")

ShowsZero(c) ==
    \/ c.kind = "number" /\ IsZero(c.number)
    \/ c.kind = "text" /\ c.text \in {"0.00", "-0.00", "0"}

\* the (value, cell) pairs of the return columns of every output so far
HtmlCells ==
    UNION {{<<r.ret[k].value, r.cells[k]>> : k \in DOMAIN r.ret} : r \in HtmlTableRows}

JsonCells ==
    UNION {{<<json_data[i].ret[k].value, json_data[i].returns[k]>> :
                k \in DOMAIN json_data[i].ret} : i \in 1..Len(json_data)}

TableCells(kind) ==
    UNION {UNION {{<<written[i].table[j].returns[k].value, written[i].table[j].cells[k]>> :
                      k \in DOMAIN written[i].table[j].returns} :
                  j \in 1..Len(written[i].table)} :
           i \in {n \in 1..Len(written) :
                      written[n].kind = kind /\ ~written[n].placeholder}}

Marked(pairs) == \A p \in pairs : isna(p[1]) => IsNoDataMarker(p[2])
NotZeroed(pairs) == \A p \in pairs : isna(p[1]) => ~ShowsZero(p[2])

\* C14: every undefined return value reaches each output (HTML table cell,
\* JSON entry, PDF table cell, Excel cell) as an explicit no-data marker,
\* never as zero and never as an empty cell.
C14_UndefinedShownAsNoData ==
    /\ Marked(HtmlCells) /\ NotZeroed(HtmlCells)
    /\ Marked(JsonCells) /\ NotZeroed(JsonCells)
    /\ Marked(TableCells("page")) /\ NotZeroed(TableCells("page"))
    /\ Marked(TableCells("sheet")) /\ NotZeroed(TableCells("sheet"))

\* C14 restricted to the JSON entries and the PDF tables, and to "never zero"
\* for all four outputs
C14_JsonAndPdfMarkUndefined ==
    /\ Marked(JsonCells)
    /\ Marked(TableCells("page"))
    /\ NotZeroed(HtmlCells) /\ NotZeroed(JsonCells)
    /\ NotZeroed(TableCells("page")) /\ NotZeroed(TableCells("sheet"))

\* C14, what the HTML table and the workbook hold instead: an empty cell
C14_HtmlAndExcelLeaveBlank ==
    \A p \in HtmlCells \cup TableCells("sheet") : isna(p[1]) => IsBlank(p[2])

C14_WitnessJson == \E p \in JsonCells : isna(p[1]) /\ p[2] = Null
C14_WitnessPdf == \E p \in TableCells("page") : isna(p[1]) /\ p[2] = Text("NA")
C14_WitnessHtml == \E p \in HtmlCells : isna(p[1]) /\ p[2] = Text("")
C14_WitnessExcel == \E p \in TableCells("sheet") : isna(p[1]) /\ p[2] = Blank

----------------------------------------------------------------------------
(* Order of fetching, preparing and writing in a run (checked under        *)
(* SpecRun).                                                                *)

HasEntry(kind, title, ident) ==
    \E i \in 1..Len(html) :
        html[i].kind = kind /\ html[i].section = title /\ html[i].ident = ident

\* every series of SECTIONS is in data, has its table row on the page, and its
\* chart pair if it has data
HtmlPrepared ==
    /\ DOMAIN data = HtmlIdents
    /\ \A k \in 1..Len(SECTIONS) :
          \A it \in SeqRange(SECTIONS[k].items) :
              /\ HasEntry("row", SECTIONS[k].title, it.ident)
              /\ ~empty(data_get(it.ident)) =>
                    HasEntry("chart_pair", SECTIONS[k].title, it.ident)

FullFetched == \A id \in FullIdents : <<id, START>> \in DOMAIN calls

SectionOf(title) == CHOOSE k \in 1..Len(sections) : sections[k].title = title

\* a step that fetches or computes returns: a provider call, a new table row
\* or chart, a new JSON entry, a new summary row
Prepares ==
    \/ calls' # calls
    \/ Len(html') > Len(html)
    \/ Len(json_data') > Len(json_data)
    \/ Len(full_summary_df') > Len(full_summary_df)

FullWritesSectionBySection ==
    \A i \in 1..Len(written) :
        /\ written[i].kind = "sheet" =>
              \A it \in SeqRange(sections[SectionOf(written[i].name)].series) :
                  <<it.ident, START>> \in DOMAIN calls
        /\ written[i].kind = "page" =>
              \E j \in 1..(i - 1) :
                  written[j].kind = "sheet" /\ written[j].name = written[i].name
        /\ written[i].kind = "file" => pc.phase = "done"

C17_WitnessFull ==
    /\ script = "full" /\ pc.phase = "summary" /\ pc.sec = 2
    /\ \E i \in 1..Len(written) : written[i].kind = "page"
    /\ ~FullFetched

----------------------------------------------------------------------------
(* Properties of the operator's terminal (checked under SpecRun).          *)

ConsoleKinds == {console[i].kind : i \in 1..Len(console)}

AllDown ==
    \/ script = "html" /\ down = HtmlIdents
    \/ script = "full" /\ down = FullIdents

RunEnded == pc.phase = "done" \/ crashed

\* C21: when the fetch fails for every identifier of a run, the run tells
\* the operator so with a summary count of the failed identifiers.
C21_TotalFailureSurfacedByCount ==
    (AllDown /\ RunEnded) => "summary_count" \in ConsoleKinds

\* C21, what the scripts print under total failure: generate_html.py run as
\* a program names each identifier before its fetch and then reports both
\* files as generated, with no warning; macro_report_full.py prints one
\* warning per failed fetch and ends in a traceback.
C21_TotalFailurePrintsNoCount ==
    (AllDown /\ RunEnded) =>
        /\ script = "html" => ConsoleKinds = {"generating", "fetching_from",
                                              "fetching", "generated", "open"}
        /\ script = "full" => ConsoleKinds = {"warning", "traceback"}

----------------------------------------------------------------------------
(* Properties of the pages and sheets of build_full_report (checked under  *)
(* SpecFull, where the page size and the fetch outcomes vary, and under    *)
(* SpecRun).                                                                *)

PagesOf(title) ==
    SelectSeq(written, LAMBDA w : w.kind = "page" /\ w.name = title)

SheetsOf(title) ==
    SelectSeq(written, LAMBDA w : w.kind = "sheet" /\ w.name = title)

\* the least k with k * m >= n
CeilDiv(n, m) == CHOOSE k \in 0..n : k * m >= n /\ (k = 0 \/ (k - 1) * m < n)

RECURSIVE ChartsOf(_)
ChartsOf(pages) ==
    IF pages = <<>> THEN <<>> ELSE Head(pages).charts \o ChartsOf(Tail(pages))

NamesOf(items) == [i \in 1..Len(items) |-> items[i].name]

\* the step that leaves a section after its pages
LeavesPages == script = "full" /\ pc.phase = "pages" /\ pc'.phase # "draw"

\* C22: a section with n series that returned data and page size m >= 1 gets
\* exactly ceil(n/m) pages; the pages chart each of these series exactly
\* once, in configuration order, and no page charts more than m series.
C22_PagesPartitionAvailableSeries ==
    [][LeavesPages =>
          LET P == PagesOf(FullTitle)
              n == Len(available_items)
          IN  /\ Len(P) = CeilDiv(n, per_page)
              /\ ChartsOf(P) = NamesOf(available_items)
              /\ available_items =
                     SelectSeq(sections[pc.sec].series,
                               LAMBDA it : it \in SeqRange(available_items))
              /\ \A i \in 1..Len(P) : Len(P[i].charts) <= per_page]_vars

\* ten series at three per page: the fourth page, with one chart, is saved
C22_Witness ==
    /\ script = "full" /\ pc.phase = "pages"
    /\ per_page = 3 /\ Len(available_items) = 10
    /\ Len(PagesOf(FullTitle)) = 4
    /\ Len(PagesOf(FullTitle)[4].charts) = 1

Pages == {written[i] : i \in {j \in 1..Len(written) : written[j].kind = "page"}}

\* the series named by the rows of a page's summary table; the placeholder
\* text of an empty table names none
RowNames(w) ==
    IF w.placeholder THEN {} ELSE {w.table[j].Series : j \in 1..Len(w.table)}

OneRowPerChart(w) ==
    /\ RowNames(w) = SeqRange(w.charts)
    /\ ~w.placeholder => Len(w.table) = Len(w.charts)

\* C23: on every PDF page the summary table has exactly one row for each
\* series charted on the page and no row for any other series, in every
\* section and whatever the repeated fetches of one identifier return.
C23_PageTableMatchesCharts == \A w \in Pages : OneRowPerChart(w)

\* C23 for runs in which every fetch of one identifier has the same outcome
C23_StableOutcomesPageTableMatchesCharts ==
    flaky = {} => \A w \in Pages : OneRowPerChart(w)

\* a page that charts a series its table has no row for, and a page whose
\* table is the placeholder although it charts a series
C23_ChartWithoutRow ==
    \E w \in Pages : ~w.placeholder /\ SeqRange(w.charts) \ RowNames(w) # {}

C23_ChartsUnderEmptyTable ==
    \E w \in Pages : w.placeholder /\ w.charts # <<>>

\* whether the summary of section k has a row for item it, the providers
\* answering each identifier the same way at every fetch
ReturnedData(k, it) ==
    IF sections[k].title = "Valuation Ratios"
    THEN /\ ~empty(fetch_any(it.ident, Day1900, it.ident \in down).series)
         /\ ~empty(fetch_any(it.ident, START, it.ident \in down).series)
    ELSE ~empty(fetch_any(it.ident, START, it.ident \in down).series)

WithData(k) == SelectSeq(sections[k].series, LAMBDA it : ReturnedData(k, it))

Completed == script = "full" /\ pc.phase = "done" /\ ~crashed

\* C24: a completed run of build_full_report has written exactly one sheet
\* per configured section: the section's whole summary table, one row per
\* series that returned data, or the placeholder notice when none did, and
\* then no page of that section.
C24_OneSheetPerSection ==
    Completed =>
        \A k \in 1..Len(sections) :
            LET S == SheetsOf(sections[k].title)
            IN  /\ Len(S) = 1
                /\ IF WithData(k) = <<>>
                   THEN /\ S[1].placeholder
                        /\ S[1].table = <<"No data available for this section">>
                        /\ PagesOf(sections[k].title) = <<>>
                   ELSE /\ ~S[1].placeholder
                        /\ [j \in 1..Len(S[1].table) |-> S[1].table[j].Series]
                               = NamesOf(WithData(k))

\* a completed run with a placeholder sheet for one section and, for a section
\* of more series than fit one page, one sheet with all of them
C24_Witness ==
    /\ Completed
    /\ \E k \in 1..Len(sections) :
          WithData(k) = <<>> /\ SheetsOf(sections[k].title)[1].placeholder
    /\ \E k \in 1..Len(sections) :
          /\ Len(WithData(k)) > per_page
          /\ Len(SheetsOf(sections[k].title)[1].table) = Len(WithData(k))

----------------------------------------------------------------------------
(* Properties of the scheduler's loop (checked under SpecSched).           *)

\* C25: a failed report generation never stops the scheduler: after any
\* outcome of the invocation (zero exit status, non-zero exit status, failure
\* to launch the process) the scheduler sleeps and polls again; and at most
\* one report generation is in progress at any time.
C25_SchedulerSurvivesEveryOutcome ==
    /\ [][sched_pc = "run_report" => sched_pc' = "sleep"]_vars
    /\ [](sched_pc \in {"poll", "run_report", "sleep"})
    /\ [](\A i \in 1..(Len(starts) - 1) :
              starts[i].at + starts[i].duration <= starts[i + 1].at)

\* C25, the part the loop satisfies: a report that was launched, whatever
\* its exit status, is followed by the sleep, and no report starts before the
\* previous one has ended
C25_ExitStatusNeverStopsScheduler ==
    /\ [][(sched_pc = "run_report" /\ starts' # starts) => sched_pc' = "sleep"]_vars
    /\ [](\A i \in 1..(Len(starts) - 1) :
              starts[i].at + starts[i].duration <= starts[i + 1].at)

\* a report that exited with a non-zero status, followed by a later poll
C25_WitnessFailedThenPolled ==
    /\ starts # <<>> /\ starts[1].returncode = 1
    /\ sched_pc = "poll" /\ polls >= 1 /\ last_poll.ran

\* the scheduler ended by the failure to launch the report process
C25_WitnessStopped == sched_pc = "traceback"

----------------------------------------------------------------------------
(* The yield/spread classification of the two scripts compared (checked   *)
(* under SpecRun).                                                          *)

\* the identifier codes of the return tables: every item of SECTIONS, and
\* every item of sections outside Valuation Ratios, whose table has no
\* return columns
HtmlCodes == {split(id)[2] : id \in HtmlIdents}

FullCodes ==
    UNION {{upper(it.ident) : it \in SeqRange(sections[k].series)} :
              k \in {j \in 1..Len(sections) : sections[j].title # "Valuation Ratios"}}

\* C26: every identifier code in the return tables of both scripts gets the
\* same semantics, difference or percentage, from both.
C26_SameSemanticsInBothScripts ==
    /\ \A r \in HtmlTableRows :
          split(r.ident)[2] \in FullCodes =>
              r.diff_mode = use_diff(split(r.ident)[2])
    /\ (script = "full" /\ pc.sec \in 1..Len(sections)) =>
          \A r \in FullReturnRows :
              upper(FullIdentOf(r.Series)) \in HtmlCodes =>
                  r.diff = (upper(FullIdentOf(r.Series)) \in YIELD_OR_SPREAD)

\* C26 for every shared code but MORTGAGE30US
C26_SameSemanticsExceptMortgageRate ==
    /\ \A r \in HtmlTableRows :
          (split(r.ident)[2] \in FullCodes \ {"MORTGAGE30US"}) =>
              r.diff_mode = use_diff(split(r.ident)[2])
    /\ (script = "full" /\ pc.sec \in 1..Len(sections)) =>
          \A r \in FullReturnRows :
              (upper(FullIdentOf(r.Series)) \in HtmlCodes \ {"MORTGAGE30US"}) =>
                  r.diff = (upper(FullIdentOf(r.Series)) \in YIELD_OR_SPREAD)

\* the 30-year mortgage rate as a difference in the HTML table and as a
\* percentage in the full report's summary
C26_WitnessHtmlDifference ==
    \E r \in HtmlTableRows :
        split(r.ident)[2] = "MORTGAGE30US" /\ r.diff_mode

C26_WitnessFullPercentage ==
    /\ script = "full" /\ pc.sec \in 1..Len(sections)
    /\ \E r \in FullReturnRows :
          FullIdentOf(r.Series) = "MORTGAGE30US" /\ ~r.diff

====
